---- MODULE Spec2Model ----
(***************************************************************************)
(* A model of the conversation-intelligence pipeline of the Awen chat      *)
(* assistant: the pattern engine, the preference learner, the message      *)
(* orchestrator (aiRouter.processMessage) and the page that submits to it. *)
(*                                                                         *)
(* Conventions                                                             *)
(*  - confidences and strengths are fixed-point numbers: 100 stands for    *)
(*    1.0 in the pattern engine (hundredths).                              *)
(*  - time is counted in days; `now` is what new Date() returns.           *)
(*  - a text is the set of lower-case words it contains; the vocabulary    *)
(*    holds no word that is a substring of another, so that                *)
(*    String.includes(keyword) is membership of the word in the text.      *)
(*  - a completion reply is a sequence of lexical tokens (punctuation,     *)
(*    quoted string literals, numbers, bare words); white space is not     *)
(*    represented.                                                         *)
(***************************************************************************)
EXTENDS Integers, Sequences, FiniteSets, TLC

VARIABLES
  now,          \* the clock, in days
  pats,         \* pattern engine: the pattern list the caller holds
  patOp,        \* pattern engine: the last call made and what it was given
  patPrev,      \* pattern engine: the list handed to cleanupPatterns by the last updatePatterns
  prefExisting, \* preference learning: the profile the caller loaded
  prefOut,      \* preference learning: the result of the last analyzeUserPreferences
  hasStorage,   \* whether the storage capability (window.localStorage) is present
  patternStore, \* the stored pattern collection, by session id
  profileStore, \* the stored preference profiles, by session id
  pass,         \* the processMessage passes: position and local values of each
  writers,      \* history: the pass that last wrote each stored value, by session id
  store,        \* page: the conversation store of useConversationHistory
  uiMessages,   \* page: the displayed message list
  uiInput,      \* page: the text in the input box
  isLoading,    \* page: the loading flag
  viewer,       \* page: the action log viewer (visible, suggestions shown)
  requests,     \* page: the processMessage calls awaiting their result
  minted,       \* page: how many session ids generateSessionId has handed out
  sent,         \* page: how many submissions handleSubmit has accepted
  calls,        \* conversation store: the calls made of the hook's operations, and the last one
  llm,          \* completion client: the last generateText call and the model it used
  opt,          \* token optimizer: the history handed to optimizeConversationHistory and its result
  styleCall,    \* style adapter: the messages handed to detectCommunicationStyle and its result
  stateCall     \* workflow suggester: the messages handed to analyzeConversationState and its result

patVars == <<now, pats, patOp, patPrev>>
prefVars == <<prefExisting, prefOut>>
pmVars == <<hasStorage, patternStore, profileStore, pass, writers>>
uiVars == <<store, uiMessages, uiInput, isLoading, viewer, requests, minted, sent, calls>>
gcVars == <<llm, opt, styleCall, stateCall>>
vars == <<patVars, prefVars, pmVars, uiVars, gcVars>>

Min(a, b) == IF a < b THEN a ELSE b
Max(a, b) == IF a > b THEN a ELSE b

Range(s) == {s[i] : i \in DOMAIN s}

\* Array.prototype.slice(-n): the last n elements
LastN(s, n) == IF Len(s) <= n THEN s ELSE SubSeq(s, Len(s) - n + 1, Len(s))

\* Array.prototype.slice(0, n): the first n elements
FirstN(s, n) == IF Len(s) <= n THEN s ELSE SubSeq(s, 1, n)

SeqOfLen(n, x) == [i \in 1..n |-> x]

\* all sequences over S of length at most n
SeqsUpTo(S, n) == UNION {[1..k -> S] : k \in 0..n}

-----------------------------------------------------------------------------
(* Bounds of the model *)

MaxNow == 8            \* the clock runs from day 0 to this day
MaxPatHist == 3        \* longest conversation handed to analyzeConversation
MaxOccurrences == 6    \* updatePatterns is not explored beyond this occurrence count
ReplyExamples == 6     \* examples per pattern in the largest completion reply
MaxPrefHist == 4

-----------------------------------------------------------------------------
(* Messages (types/conversation Message) *)

Message(t, words, len, img) ==
  [type |-> t, content |-> words, length |-> len, isImage |-> img]

UImg == Message("user", {"create", "image"}, 20, FALSE)
UCat == Message("user", {"cats"}, 10, FALSE)
AOk  == Message("assistant", {"sure"}, 60, FALSE)

\* String.prototype.includes(keyword) on a lower-cased text; the empty keyword
\* (what split(' ') yields between two spaces) is included in every text
Includes(text, keyword) == keyword = "" \/ keyword \in text

-----------------------------------------------------------------------------
(* Completion replies as token sequences *)

P(x) == [k |-> "p", s |-> <<x>>, n |-> 0]      \* punctuation  [ ] { } : ,
S(w) == [k |-> "s", s |-> w, n |-> 0]          \* a double-quoted string literal holding the words w
Q(w) == [k |-> "q", s |-> w, n |-> 0]          \* a single-quoted string literal
N(x) == [k |-> "n", s |-> <<>>, n |-> x]       \* a number, in hundredths
W(x) == [k |-> "w", s |-> <<x>>, n |-> 0]      \* a bare word outside any literal

IsP(t, x) == t.k = "p" /\ t.s = <<x>>

RECURSIVE Flatten(_)
Flatten(ss) == IF ss = <<>> THEN <<>> ELSE Head(ss) \o Flatten(Tail(ss))

RECURSIVE Join(_, _)
\* the token sequences of parts, separated by the token sep
Join(parts, sep) ==
  IF parts = <<>> THEN <<>>
  ELSE IF Len(parts) = 1 THEN parts[1]
  ELSE parts[1] \o <<sep>> \o Join(Tail(parts), sep)

\* what a well-behaved completion writes for one pattern, following the reply contract
ReplyItem(type, pattern, confidence, nExamples) ==
  <<P("{"), S(<<"type">>), P(":"), S(<<type>>), P(","),
    S(<<"pattern">>), P(":"), S(pattern), P(","),
    S(<<"confidence">>), P(":"), N(confidence), P(","),
    S(<<"examples">>), P(":"), P("[")>>
  \o Join([i \in 1..nExamples |-> <<S(<<"quote">>)>>], P(","))
  \o <<P("]"), P("}")>>

ReplyArray(items) == <<P("[")>> \o Join(items, P(",")) \o <<P("]")>>

-----------------------------------------------------------------------------
(* JSON.parse over tokens *)

ParseFail == [ok |-> FALSE, nx |-> 0, v |-> [k |-> "none"]]

RECURSIVE ParseValue(_, _)
RECURSIVE ParseElems(_, _, _)
RECURSIVE ParseMembers(_, _, _)

\* the JSON value starting at token i: [ok, nx (the token after it), v]
ParseValue(t, i) ==
  IF i > Len(t) THEN ParseFail
  ELSE IF t[i].k = "s" THEN [ok |-> TRUE, nx |-> i + 1, v |-> [k |-> "str", s |-> t[i].s]]
  ELSE IF t[i].k = "n" THEN [ok |-> TRUE, nx |-> i + 1, v |-> [k |-> "num", n |-> t[i].n]]
  ELSE IF IsP(t[i], "[") THEN
    IF i + 1 <= Len(t) /\ IsP(t[i + 1], "]")
    THEN [ok |-> TRUE, nx |-> i + 2, v |-> [k |-> "arr", items |-> <<>>]]
    ELSE ParseElems(t, i + 1, <<>>)
  ELSE IF IsP(t[i], "{") THEN
    IF i + 1 <= Len(t) /\ IsP(t[i + 1], "}")
    THEN [ok |-> TRUE, nx |-> i + 2, v |-> [k |-> "obj", mem |-> <<>>]]
    ELSE ParseMembers(t, i + 1, <<>>)
  ELSE ParseFail

\* the rest of an array: a value at i, then "," and more, or "]"
ParseElems(t, i, acc) ==
  LET r == ParseValue(t, i) IN
  IF ~r.ok \/ r.nx > Len(t) THEN ParseFail
  ELSE IF IsP(t[r.nx], ",") THEN ParseElems(t, r.nx + 1, Append(acc, r.v))
  ELSE IF IsP(t[r.nx], "]")
  THEN [ok |-> TRUE, nx |-> r.nx + 1, v |-> [k |-> "arr", items |-> Append(acc, r.v)]]
  ELSE ParseFail

\* the rest of an object: string ":" value at i, then "," and more, or "}"
ParseMembers(t, i, acc) ==
  IF i + 1 > Len(t) \/ t[i].k # "s" \/ ~IsP(t[i + 1], ":") THEN ParseFail
  ELSE
    LET r == ParseValue(t, i + 2) IN
    IF ~r.ok \/ r.nx > Len(t) THEN ParseFail
    ELSE
      LET m == Append(acc, [key |-> t[i].s, val |-> r.v]) IN
      IF IsP(t[r.nx], ",") THEN ParseMembers(t, r.nx + 1, m)
      ELSE IF IsP(t[r.nx], "}")
      THEN [ok |-> TRUE, nx |-> r.nx + 1, v |-> [k |-> "obj", mem |-> m]]
      ELSE ParseFail

\* JSON.parse(text): [ok |-> FALSE] stands for the SyntaxError it throws
JSONparse(t) ==
  LET r == ParseValue(t, 1) IN
  IF r.ok /\ r.nx = Len(t) + 1 THEN [ok |-> TRUE, v |-> r.v] ELSE [ok |-> FALSE, v |-> [k |-> "none"]]

\* property access obj[key] on a parsed value: the last member of that name
HasKey(v, key) == v.k = "obj" /\ \E i \in DOMAIN v.mem : v.mem[i].key = <<key>>
GetKey(v, key) ==
  LET i == CHOOSE j \in DOMAIN v.mem :
             /\ v.mem[j].key = <<key>>
             /\ \A l \in DOMAIN v.mem : v.mem[l].key = <<key>> => l <= j
  IN v.mem[i].val

\* JavaScript truthiness of a parsed value
Truthy(v) ==
  CASE v.k = "str" -> v.s # <<>>
    [] v.k = "num" -> v.n # 0
    [] v.k = "arr" -> TRUE
    [] v.k = "obj" -> TRUE
    [] OTHER -> FALSE

-----------------------------------------------------------------------------
(* PatternRecognitionEngine *)

MIN_PATTERN_OCCURRENCES == 2
PATTERN_CONFIDENCE_THRESHOLD == 60      \* 0.6
WeekDays == 7                           \* 7 * 24 * 60 * 60 * 1000 ms
MaxExamples == 5                        \* "Keep only recent examples (max 5)"
ConfidenceStep == 10                    \* pattern.confidence + 0.1
ConfidenceCap == 100                    \* Math.min(..., 1.0)

\* an element of ConversationPattern.examples
Example(src, user, ai) == [src |-> src, user |-> user, ai |-> ai]

\* content.match(/\[[\s\S]*\]/): from the first "[" to the last "]"
ArrayMatch(t) ==
  LET opens == {i \in DOMAIN t : IsP(t[i], "[")}
      closes == {i \in DOMAIN t : IsP(t[i], "]")}
  IN IF opens = {} THEN [found |-> FALSE, text |-> <<>>]
     ELSE LET a == CHOOSE i \in opens : \A j \in opens : i <= j
              after == {i \in closes : i > a}
          IN IF after = {} THEN [found |-> FALSE, text |-> <<>>]
             ELSE LET b == CHOOSE i \in after : \A j \in after : j <= i
                  IN [found |-> TRUE, text |-> SubSeq(t, a, b)]

RECURSIVE StripTrailingCommas(_)
\* jsonString.replace(/,(\s*[\]}])/g, '$1')
StripTrailingCommas(t) ==
  IF t = <<>> THEN <<>>
  ELSE IF IsP(t[1], ",") /\ Len(t) >= 2 /\ (IsP(t[2], "]") \/ IsP(t[2], "}"))
       THEN StripTrailingCommas(Tail(t))
       ELSE <<t[1]>> \o StripTrailingCommas(Tail(t))

\* jsonString.replace(/'/g, '"')
NormalizeQuotes(t) == [i \in DOMAIN t |-> IF t[i].k = "q" THEN S(t[i].s) ELSE t[i]]

\* the characters of a token, as they stand between two quotes
TokText(tok) == IF tok.k = "n" THEN <<"number">> ELSE tok.s

RECURSIVE EscapeFrom(_, _)
\* jsonString.replace(/"([^"]*)"([^"]*)"([^"]*)"/g, '"$1\\"$2\\"$3"') from token i on:
\* every match spans four quote characters, that is two consecutive string
\* literals and what stands between them, and comes back as ONE literal whose
\* two inner quotes are escaped
EscapeFrom(t, i) ==
  IF i > Len(t) THEN <<>>
  ELSE IF t[i].k # "s" THEN <<t[i]>> \o EscapeFrom(t, i + 1)
  ELSE
    LET js == {j \in (i + 1)..Len(t) : t[j].k = "s"} IN
    IF js = {} THEN SubSeq(t, i, Len(t))
    ELSE
      LET j == CHOOSE x \in js : \A y \in js : x <= y
          between == Flatten([x \in 1..(j - i - 1) |-> TokText(t[i + x])])
      IN <<S(t[i].s \o <<"\"">> \o between \o <<"\"">> \o t[j].s)>> \o EscapeFrom(t, j + 1)

\* a repair step that leaves the string literals of the reply as they are
KeepLiterals(t) == t

EscapeInnerQuotes(t) == EscapeFrom(t, 1)

\* the cleaning of parsePatternResponse, in the order of the source
CleanJsonString(t) == EscapeInnerQuotes(NormalizeQuotes(StripTrailingCommas(t)))

\* generatePatternId(pattern)
generatePatternId(pattern, t) == <<"pattern", t, pattern>>

RECURSIVE SortedSeq(_)
\* the elements of a finite set of numbers, ascending
SortedSeq(set) ==
  IF set = {} THEN <<>>
  ELSE LET m == CHOOSE x \in set : \A y \in set : x <= y
       IN <<m>> \o SortedSeq(set \ {m})

\* content.match(/"<key>":\s*.../g): the values following "<key>": in the text;
\* kind "s" asks for a non-empty string literal ("([^"]+)"), kind "n" for a number ([\d.]+)
RegexMatches(t, key, kind) ==
  LET hits == {i \in DOMAIN t :
                 /\ i + 2 <= Len(t)
                 /\ t[i].k = "s" /\ t[i].s = <<key>>
                 /\ IsP(t[i + 1], ":")
                 /\ t[i + 2].k = kind
                 /\ (kind = "s" => t[i + 2].s # <<>>)}
      idx == SortedSeq(hits)
  IN [x \in DOMAIN idx |-> t[idx[x] + 2]]

ParsedConfident(p) == p.confidence >= PATTERN_CONFIDENCE_THRESHOLD

\* fallbackPatternParsing(content): positional regex extraction
fallbackPatternParsing(content, t) ==
  LET patternMatches == RegexMatches(content, "pattern", "s")
      typeMatches == RegexMatches(content, "type", "s")
      confidenceMatches == RegexMatches(content, "confidence", "n")
  IN IF patternMatches = <<>> \/ typeMatches = <<>> \/ confidenceMatches = <<>> THEN <<>>
     ELSE
       LET minLength == Min(Len(patternMatches), Min(Len(typeMatches), Len(confidenceMatches)))
           all == [i \in 1..minLength |->
                    [id |-> generatePatternId(patternMatches[i].s, t),
                     type |-> typeMatches[i].s,
                     pattern |-> patternMatches[i].s,
                     confidence |-> confidenceMatches[i].n,
                     occurrences |-> 1,
                     lastSeen |-> t,
                     examples |-> <<>>]]
       IN SelectSeq(all, ParsedConfident)

\* the two filters of parsePatternResponse
IsPatternObject(p) ==
  /\ p.k = "obj"
  /\ HasKey(p, "pattern") /\ Truthy(GetKey(p, "pattern"))
  /\ HasKey(p, "confidence") /\ GetKey(p, "confidence").k = "num"
  /\ GetKey(p, "confidence").n >= PATTERN_CONFIDENCE_THRESHOLD

\* the .map of parsePatternResponse for one parsed element
PatternOfParsed(p, t) ==
  [id |-> generatePatternId(GetKey(p, "pattern").s, t),
   type |-> IF HasKey(p, "type") /\ GetKey(p, "type").k = "str"
            THEN GetKey(p, "type").s ELSE <<"undefined">>,
   pattern |-> GetKey(p, "pattern").s,
   confidence |-> GetKey(p, "confidence").n,
   occurrences |-> 1,
   lastSeen |-> t,
   examples |-> IF HasKey(p, "examples") /\ GetKey(p, "examples").k = "arr"
                THEN [j \in DOMAIN GetKey(p, "examples").items |-> Example("reply", {}, {})]
                ELSE <<>>]

\* parsePatternResponse(content): any throw inside the try (JSON.parse, or
\* pattern.replace on a pattern that is no string) lands in fallbackPatternParsing
parsePatternResponse(content, t) ==
  LET jsonMatch == ArrayMatch(content) IN
  IF ~jsonMatch.found THEN <<>>
  ELSE
    LET parsed == JSONparse(CleanJsonString(jsonMatch.text)) IN
    IF ~parsed.ok THEN fallbackPatternParsing(content, t)
    ELSE
      LET kept == SelectSeq(parsed.v.items, IsPatternObject) IN
      IF \E i \in DOMAIN kept : GetKey(kept[i], "pattern").k # "str"
      THEN fallbackPatternParsing(content, t)
      ELSE [i \in DOMAIN kept |-> PatternOfParsed(kept[i], t)]

IsImageRequest(m) ==
  Includes(m.content, "image") \/ Includes(m.content, "generate") \/ Includes(m.content, "create")

IsUser(m) == m.type = "user"

\* fallbackPatternDetection(messages): the keyword heuristic
fallbackPatternDetection(messages, t) ==
  LET userMessages == SelectSeq(messages, IsUser)
      imageRequests == SelectSeq(userMessages, IsImageRequest)
  IN IF Len(imageRequests) >= 2
     THEN <<[id |-> <<"image_preference">>,
             type |-> <<"preference">>,
             pattern |-> <<"user", "frequently", "requests", "image", "generation">>,
             confidence |-> 70,
             occurrences |-> Len(imageRequests),
             lastSeen |-> t,
             examples |-> [i \in DOMAIN FirstN(imageRequests, 3) |->
                             Example("message", imageRequests[i].content, {})]]>>
     ELSE <<>>

\* a completion call's outcome: the text it returned, or the error it threw
Reply(content) == [ok |-> TRUE, content |-> content]
CallFails == [ok |-> FALSE, content |-> <<>>]

\* an analysis that hands a short conversation to the keyword heuristic
analyzeShortByKeywords(messages, reply, t) ==
  IF Len(messages) < 3 \/ ~reply.ok THEN fallbackPatternDetection(messages, t)
  ELSE parsePatternResponse(reply.content, t)

\* analyzeConversation(messages), given the outcome of its completion call
analyzeConversation(messages, reply, t) ==
  IF Len(messages) < 3 THEN <<>>
  ELSE IF ~reply.ok THEN fallbackPatternDetection(messages, t)
  ELSE parsePatternResponse(reply.content, t)

\* matchesPattern(newMessage, response, pattern)
matchesPattern(newMessage, response, pattern) ==
  LET content == newMessage.content \cup response.content IN
  \E i \in DOMAIN pattern.pattern : Includes(content, pattern.pattern[i])

\* formatInteractionExample(userMessage, response)
formatInteractionExample(userMessage, response) ==
  Example("interaction", userMessage.content, response.content)

\* the filter predicate of cleanupPatterns, with now = new Date()
\* a cleanup test that looks at recency alone
KeepsRecentOnly(pattern, t) == pattern.lastSeen > t - WeekDays

KeepsPattern(pattern, t) ==
  \/ pattern.lastSeen > t - WeekDays
  \/ pattern.confidence > 80
  \/ pattern.occurrences >= MIN_PATTERN_OCCURRENCES

RECURSIVE cleanupPatterns(_, _)
\* cleanupPatterns(patterns): Array.filter keeps the order
cleanupPatterns(patterns, t) ==
  IF patterns = <<>> THEN <<>>
  ELSE IF KeepsPattern(patterns[1], t)
       THEN <<patterns[1]>> \o cleanupPatterns(Tail(patterns), t)
       ELSE cleanupPatterns(Tail(patterns), t)

\* the loop of updatePatterns for one pattern
Reinforce(pattern, newMessage, response, t) ==
  IF matchesPattern(newMessage, response, pattern)
  THEN LET pushed == Append(pattern.examples, formatInteractionExample(newMessage, response))
       IN [pattern EXCEPT !.occurrences = @ + 1,
                          !.confidence = Min(@ + ConfidenceStep, ConfidenceCap),
                          !.lastSeen = t,
                          !.examples = IF Len(pushed) > MaxExamples
                                       THEN LastN(pushed, MaxExamples) ELSE pushed]
  ELSE pattern

\* detectNewPatterns: "For now, return empty array"
detectNewPatterns == <<>>

\* what updatePatterns hands to cleanupPatterns
ReinforcedPatterns(newMessage, response, existingPatterns, t) ==
  [i \in DOMAIN existingPatterns |-> Reinforce(existingPatterns[i], newMessage, response, t)]
  \o detectNewPatterns

\* updatePatterns(newMessage, response, existingPatterns)
updatePatterns(newMessage, response, existingPatterns, t) ==
  cleanupPatterns(ReinforcedPatterns(newMessage, response, existingPatterns, t), t)

-----------------------------------------------------------------------------
(* UserPreferenceLearning (userPreferenceLearning.ts); strengths, confidences
   and frequencies ratios are in thousandths, 1000 = 1.0 *)

PREFERENCE_THRESHOLD == 300
REINFORCEMENT_DECAY == 95      \* per cent
WeakStrength == 100            \* decayed preferences at or below 0.1 are dropped
ShortLength == 50
LongLength == 200
LengthStep == 300
KeywordStep == 200
One == 1000

\* a long, polite user message about code
ULong == Message("user", {"please", "explain", "function"}, 250, FALSE)

Preference(category, preference, strength, confidence, t, frequency) ==
  [category |-> category, preference |-> preference, strength |-> strength,
   confidence |-> confidence, lastReinforced |-> t, frequency |-> frequency]

IncludesAny(text, keywords) == \E k \in keywords : Includes(text, k)

RECURSIVE SumOver(_, _)
SumOver(f, n) == IF n = 0 THEN 0 ELSE f[n] + SumOver(f, n - 1)

StyleNames == <<"concise", "detailed", "casual", "formal", "technical", "creative">>

\* what one message adds to one indicator
StyleStep(style, m) ==
  IF m.type # "user" THEN 0
  ELSE CASE style = "concise"   -> IF m.length < ShortLength THEN LengthStep ELSE 0
         [] style = "detailed"  -> IF m.length > LongLength THEN LengthStep ELSE 0
         [] style = "formal"    -> IF IncludesAny(m.content, {"please", "thank"}) THEN KeywordStep ELSE 0
         [] style = "casual"    -> IF IncludesAny(m.content, {"hey", "cool"}) THEN KeywordStep ELSE 0
         [] style = "technical" -> IF IncludesAny(m.content, {"implement", "function"}) THEN KeywordStep ELSE 0
         [] style = "creative"  -> IF IncludesAny(m.content, {"creative", "artistic"}) THEN KeywordStep ELSE 0

extractStyleIndicators(messages) ==
  [style \in Range(StyleNames) |->
     SumOver([i \in DOMAIN messages |-> StyleStep(style, messages[i])], Len(messages))]

IsStrongStyle(p) == p.strength > PREFERENCE_THRESHOLD

analyzeResponseStylePreferences(messages, t) ==
  LET styleIndicators == extractStyleIndicators(messages)
      all == [i \in DOMAIN StyleNames |->
                Preference("response_style", StyleNames[i], styleIndicators[StyleNames[i]],
                           Min((styleIndicators[StyleNames[i]] * 12) \div 10, One), t, 1)]
  IN  SelectSeq(all, IsStrongStyle)

ContentTypeNames == <<"code", "explanation", "creative", "analysis", "troubleshooting", "learning">>

ContentKeywords(type) ==
  CASE type = "code"            -> {"code", "function"}
    [] type = "explanation"     -> {"explain", "what"}
    [] type = "creative"        -> {"create", "design"}
    [] type = "analysis"        -> {"analyze", "compare"}
    [] type = "troubleshooting" -> {"error", "fix"}
    [] type = "learning"        -> {"learn", "how"}

identifyContentTypes(messages) ==
  [type \in Range(ContentTypeNames) |->
     SumOver([i \in DOMAIN messages |->
                IF messages[i].type = "user" /\ IncludesAny(messages[i].content, ContentKeywords(type))
                THEN 1 ELSE 0], Len(messages))]

\* frequency > 0.2 on a count
IsFrequent(p) == p.frequency >= 1

analyzeContentTypePreferences(messages, t) ==
  LET contentTypes == identifyContentTypes(messages)
      all == [i \in DOMAIN ContentTypeNames |->
                LET frequency == contentTypes[ContentTypeNames[i]]
                    normalizedFreq == (frequency * One) \div Max(Len(messages), 1)
                IN  Preference("content_type", ContentTypeNames[i], normalizedFreq,
                               normalizedFreq, t, frequency)]
  IN  SelectSeq(all, IsFrequent)

identifyInteractionPatterns(messages) ==
  IF Len(messages) > 1
  THEN <<[description |-> "quick_responses", strength |-> 700, confidence |-> 800, frequency |-> 1]>>
  ELSE <<>>

analyzeInteractionPatterns(messages, t) ==
  LET patterns == identifyInteractionPatterns(messages)
  IN  [i \in DOMAIN patterns |->
         Preference("interaction_pattern", patterns[i].description, patterns[i].strength,
                    patterns[i].confidence, t, patterns[i].frequency)]

SamePreference(p, q) == p.category = q.category /\ p.preference = q.preference

Decayed(pref) == [pref EXCEPT !.strength = (@ * REINFORCEMENT_DECAY) \div 100]

IsStrongExisting(p) == p.strength > WeakStrength

RECURSIVE MergeInto(_, _)
MergeInto(merged, strongExisting) ==
  IF strongExisting = <<>> THEN merged
  ELSE LET existing == Head(strongExisting)
       IN  IF \E i \in DOMAIN merged : SamePreference(merged[i], existing)
           THEN MergeInto(merged, Tail(strongExisting))
           ELSE MergeInto(Append(merged, existing), Tail(strongExisting))

mergeWithExistingPreferences(newPrefs, reinforcedPrefs, existingPrefs) ==
  LET decayedExisting == [i \in DOMAIN existingPrefs |-> Decayed(existingPrefs[i])]
      strongExisting == SelectSeq(decayedExisting, IsStrongExisting)
  IN  [merged |-> MergeInto(newPrefs, strongExisting), reinforced |-> reinforcedPrefs]

calculateOverallConfidence(newPrefs, reinforcedPrefs) ==
  LET all == newPrefs \o reinforcedPrefs
  IN  IF Len(all) = 0 THEN 0
      ELSE Min(SumOver([i \in DOMAIN all |-> all[i].confidence], Len(all)) \div Len(all), One)

NoProfile == [present |-> FALSE, preferences |-> <<>>]
Profile(preferences) == [present |-> TRUE, preferences |-> preferences]

LearningResult(newPreferences, reinforcedPreferences, confidence) ==
  [newPreferences |-> newPreferences, reinforcedPreferences |-> reinforcedPreferences,
   confidence |-> confidence]

analyzeUserPreferences(messages, existingProfile, t) ==
  IF SelectSeq(messages, IsUser) = <<>> THEN LearningResult(<<>>, <<>>, 0)
  ELSE LET newPreferences == analyzeResponseStylePreferences(messages, t)
                               \o analyzeContentTypePreferences(messages, t)
                               \o analyzeInteractionPatterns(messages, t)
           m == mergeWithExistingPreferences(newPreferences, <<>>, existingProfile.preferences)
       IN  LearningResult(m.merged, m.reinforced,
                          calculateOverallConfidence(m.merged, m.reinforced))

NoResult == [called |-> FALSE, messages |-> <<>>, result |-> LearningResult(<<>>, <<>>, 0)]

PrefIdle ==
  /\ prefExisting = NoProfile
  /\ prefOut = NoResult

-----------------------------------------------------------------------------
(* Browser storage of patterns and profiles (part_000 901-939,
   userPreferenceLearning.ts 161-224) *)

Sessions == {"s1", "s2"}

\* JSON.stringify turns a date into its ISO text; new Date(text) reads it back
ToISO(t) == [iso |-> t]
FromISO(x) == x.iso

StoredPattern(pattern) == [pattern EXCEPT !.lastSeen = ToISO(@)]
\* a load that reads every lastSeen a day late
RevivedNextDay(stored) == [stored EXCEPT !.lastSeen = FromISO(@) + 1]
RevivedPattern(stored) == [stored EXCEPT !.lastSeen = FromISO(@)]

StoredPreference(pref) == [pref EXCEPT !.lastReinforced = ToISO(@)]
RevivedPreference(stored) == [stored EXCEPT !.lastReinforced = FromISO(@)]

\* a save that starts from an empty collection instead of the stored one
savePatternsAlone(present, stored, sessionId, patterns) ==
  IF ~present THEN stored
  ELSE [s \in DOMAIN stored |->
          IF s = sessionId THEN [i \in DOMAIN patterns |-> StoredPattern(patterns[i])]
          ELSE <<>>]

\* a save that adds to the session's stored patterns instead of replacing them
savePatternsAdding(present, stored, sessionId, patterns) ==
  IF ~present THEN stored
  ELSE [stored EXCEPT ![sessionId] = @ \o [i \in DOMAIN patterns |-> StoredPattern(patterns[i])]]

\* a save that does not look for the storage capability first
savePatternsAnywhere(present, stored, sessionId, patterns) ==
  [stored EXCEPT ![sessionId] = [i \in DOMAIN patterns |-> StoredPattern(patterns[i])]]

\* the stored pattern collection after savePatterns(sessionId, patterns)
savePatterns(present, stored, sessionId, patterns) ==
  IF ~present THEN stored
  ELSE [stored EXCEPT ![sessionId] = [i \in DOMAIN patterns |-> StoredPattern(patterns[i])]]

loadPatterns(present, stored, sessionId) ==
  IF ~present THEN <<>>
  ELSE [i \in DOMAIN stored[sessionId] |-> RevivedPattern(stored[sessionId][i])]

\* the stored profiles after savePreferenceProfile(profile)
savePreferenceProfile(present, stored, sessionId, preferences) ==
  IF ~present THEN stored
  ELSE [stored EXCEPT ![sessionId] =
          Profile([i \in DOMAIN preferences |-> StoredPreference(preferences[i])])]

loadPreferenceProfile(present, stored, sessionId) ==
  IF ~present \/ ~stored[sessionId].present THEN NoProfile
  ELSE Profile([i \in DOMAIN stored[sessionId].preferences |->
                  RevivedPreference(stored[sessionId].preferences[i])])

-----------------------------------------------------------------------------
(* Intent classification (geminiClient.ts 191-261) and memory insights
   (part_000 608-628, 741-759, 821-852) *)

\* the text from the first "{" to the last "}"
ObjectMatch(t) ==
  LET opens == {i \in DOMAIN t : IsP(t[i], "{")}
      closes == {i \in DOMAIN t : IsP(t[i], "}")}
  IN  IF opens = {} \/ closes = {} THEN [found |-> FALSE, text |-> <<>>]
      ELSE LET a == CHOOSE i \in opens : \A j \in opens : i <= j
               b == CHOOSE i \in closes : \A j \in closes : j <= i
           IN  IF a < b THEN [found |-> TRUE, text |-> SubSeq(t, a, b)]
               ELSE [found |-> FALSE, text |-> <<>>]

\* {"intent":"...","confidence":0.9}
ClassifyReply(intent, confidence) ==
  <<P("{"), S(<<"intent">>), P(":"), S(<<intent>>), P(","),
    S(<<"confidence">>), P(":"), N(confidence), P("}")>>

\* {"confidence":0.9}: the intent is missing
ClassifyReplyNoIntent ==
  <<P("{"), S(<<"confidence">>), P(":"), N(90), P("}")>>

ImageKeywords == {"image", "picture", "generate", "create", "design", "visualize"}

Classification(intent, confidence) == [intent |-> intent, confidence |-> confidence]

KeywordClassification(input) ==
  IF IncludesAny(input.words, ImageKeywords) THEN Classification("image", 70)
  ELSE Classification("text", 60)

classifyIntent(input, reply) ==
  IF ~reply.ok THEN KeywordClassification(input)
  ELSE LET jsonMatch == ObjectMatch(reply.content)
           parsed == JSONparse(jsonMatch.text)
       IN  IF ~jsonMatch.found \/ ~parsed.ok THEN KeywordClassification(input)
           ELSE LET result == parsed.v
                IN  Classification(
                      IF HasKey(result, "intent") /\ Truthy(GetKey(result, "intent"))
                      THEN GetKey(result, "intent").s[1] ELSE "text",
                      IF HasKey(result, "confidence") /\ Truthy(GetKey(result, "confidence"))
                      THEN GetKey(result, "confidence").n ELSE 50)

StrValue(words) == [k |-> "str", s |-> words]
ArrValue(items) == [k |-> "arr", items |-> items]

Insights(topicInterests, sessionContext) ==
  [communicationStyle |-> "casual", topicInterests |-> topicInterests,
   sessionContext |-> sessionContext]

getDefaultInsights == Insights(ArrValue(<<>>), "New conversation")

IsDomainInterest(pattern) == pattern.type = <<"domain_interest">>

fallbackInsightGeneration(patterns) ==
  LET interests == SelectSeq(patterns, IsDomainInterest)
  IN  Insights(ArrValue([i \in DOMAIN interests |-> StrValue(interests[i].pattern)]),
               "Conversation in progress")

parseInsightResponse(content, patterns) ==
  LET jsonMatch == ObjectMatch(content)
      parsed == JSONparse(jsonMatch.text)
  IN  IF ~jsonMatch.found \/ ~parsed.ok THEN fallbackInsightGeneration(patterns)
      ELSE LET insights == parsed.v
           IN  Insights(
                 IF HasKey(insights, "topicInterests") /\ Truthy(GetKey(insights, "topicInterests"))
                 THEN GetKey(insights, "topicInterests") ELSE ArrValue(<<>>),
                 "General conversation")

generateMemoryInsights(patterns, reply) ==
  IF patterns = <<>> THEN getDefaultInsights
  ELSE IF ~reply.ok THEN fallbackInsightGeneration(patterns)
  ELSE parseInsightResponse(reply.content, patterns)

\* {"topicInterests":["cats","dogs"]}
InsightReplyList ==
  <<P("{"), S(<<"topicInterests">>), P(":"), P("["), S(<<"cats">>), P(","), S(<<"dogs">>),
    P("]"), P("}")>>

\* {"topicInterests":{"cats":0.9}}: interests as an object, not a list
InsightReplyObject ==
  <<P("{"), S(<<"topicInterests">>), P(":"), P("{"), S(<<"cats">>), P(":"), N(90),
    P("}"), P("}")>>

-----------------------------------------------------------------------------
(* ContextualReasoningEngine (contextualReasoning.ts) *)

Input(words, length) == [words |-> words, length |-> length]

IsRelevantTo(input, pattern) ==
  \/ \E i \in DOMAIN pattern.pattern : Includes(input.words, pattern.pattern[i])
  \/ pattern.type = <<"communication_style">>

identifyRelevantPatterns(input, patterns) ==
  SelectSeq(patterns, LAMBDA pattern : IsRelevantTo(input, pattern))

AmbiguousLength == 10

determineActionType(input, relevantPatterns) ==
  IF IncludesAny(input.words, {"image", "generate", "create", "draw", "design", "visualize"})
  THEN "image"
  ELSE IF input.length < AmbiguousLength \/ IncludesAny(input.words, {"what", "how"})
  THEN "clarify"
  ELSE IF relevantPatterns # <<>> THEN "contextual_reasoning"
  ELSE "text"

predictUserNeeds(conversationHistory) ==
  LET assistants == SelectSeq(conversationHistory, LAMBDA m : m.type = "assistant")
      afterImage == assistants # <<>> /\ assistants[Len(assistants)].isImage
  IN  FirstN((IF afterImage THEN <<"image_variations", "related_visuals">> ELSE <<>>)
               \o <<"follow_up_questions", "more_details">>, 3)

\* the try block of executeContextualReasoning holds one failing operation, the
\* completion call, which generateContextualResponse catches itself
executeContextualReasoning(input, conversationHistory, patterns, reply) ==
  LET relevantPatterns == identifyRelevantPatterns(input, patterns)
      actionType == determineActionType(input, relevantPatterns)
      predictedNeeds == predictUserNeeds(conversationHistory)
  IN  IF actionType = "image"
      THEN [response |-> "canned_image_prompt", actionType |-> "image",
            hypotheticalNext |-> predictedNeeds, called |-> FALSE]
      ELSE IF reply.ok
      THEN [response |-> "completion", actionType |-> actionType,
            hypotheticalNext |-> predictedNeeds, called |-> TRUE]
      ELSE [response |-> "reasoner_fallback", actionType |-> "text",
            hypotheticalNext |-> predictedNeeds, called |-> TRUE]

-----------------------------------------------------------------------------
(* WorkflowContinuation (part_000 1-545) *)

MAX_SUGGESTIONS == 5
MIN_CONFIDENCE_THRESHOLD == 30

Suggestion(id, type, confidence, priority) ==
  [id |-> id, type |-> type, confidence |-> confidence, priority |-> priority]

WorkflowResult(suggestions, conversationState, nextBestActions) ==
  [threw |-> FALSE, suggestions |-> suggestions, conversationState |-> conversationState,
   nextBestActions |-> nextBestActions]

WorkflowThrows ==
  [threw |-> TRUE, suggestions |-> <<>>, conversationState |-> "", nextBestActions |-> <<>>]

\* starter suggestions one of which is typed as a follow-up
StartersWithFollowUp ==
  WorkflowResult(<<Suggestion(<<"initial_1">>, "exploration", 80, "high"),
                   Suggestion(<<"initial_2">>, "follow_up", 80, "high"),
                   Suggestion(<<"initial_3">>, "exploration", 70, "medium")>>,
                 "beginning",
                 <<"ask_goals", "understand_context", "identify_style">>)

generateInitialSuggestions ==
  WorkflowResult(<<Suggestion(<<"initial_1">>, "exploration", 80, "high"),
                   Suggestion(<<"initial_2">>, "exploration", 80, "high"),
                   Suggestion(<<"initial_3">>, "exploration", 70, "medium")>>,
                 "beginning",
                 <<"ask_goals", "understand_context", "identify_style">>)

RecentContent(messages, n) ==
  UNION {LastN(messages, n)[i].content : i \in DOMAIN LastN(messages, n)}

\* a classification that looks at the keywords before it counts the messages
analyzeKeywordsFirst(messages) ==
  LET userMessages == SelectSeq(messages, IsUser)
      messageCount == Len(userMessages)
      recentContent == RecentContent(userMessages, 3)
  IN  IF IncludesAny(recentContent, {"thanks", "that's all", "goodbye", "that helps"}) THEN "conclusion"
      ELSE IF IncludesAny(recentContent, {"now", "next", "switch", "move on"}) THEN "transition"
      ELSE IF IncludesAny(recentContent, {"detail", "explain more", "elaborate", "deep"}) THEN "deep_dive"
      ELSE IF messageCount <= 2 THEN "beginning"
      ELSE "developing"

analyzeConversationState(messages) ==
  LET userMessages == SelectSeq(messages, IsUser)
      messageCount == Len(userMessages)
      recentContent == RecentContent(userMessages, 3)
  IN  IF messageCount <= 2 THEN "beginning"
      ELSE IF messageCount <= 5 THEN "developing"
      ELSE IF IncludesAny(recentContent, {"thanks", "that's all", "goodbye", "that helps"}) THEN "conclusion"
      ELSE IF IncludesAny(recentContent, {"now", "next", "switch", "move on"}) THEN "transition"
      ELSE IF IncludesAny(recentContent, {"detail", "explain more", "elaborate", "deep"}) THEN "deep_dive"
      ELSE "developing"

identifyIncompleteWorkflows(messages, patterns) ==
  LET hasCodingPatterns ==
        \E i \in DOMAIN patterns : \E j \in DOMAIN patterns[i].pattern :
          patterns[i].pattern[j] \in {"code", "function", "implement"}
      recentContent == RecentContent(messages, 3)
  IN  IF ~hasCodingPatterns THEN <<>>
      ELSE (IF Includes(recentContent, "function") /\ ~Includes(recentContent, "test")
            THEN <<Suggestion(<<"incomplete_test">>, "next_step", 70, "high")>> ELSE <<>>)
           \o (IF Includes(recentContent, "implement") /\ ~Includes(recentContent, "optimize")
               THEN <<Suggestion(<<"incomplete_optimize">>, "follow_up", 60, "medium")>> ELSE <<>>)

\* Array.prototype.sort with a comparator that orders by a number, largest
\* first: a stable sort; keyed is a sequence of [x, key] pairs
RECURSIVE InsertSorted(_, _)
InsertSorted(e, sorted) ==
  IF sorted = <<>> THEN <<e>>
  ELSE IF e.key > Head(sorted).key THEN <<e>> \o sorted
  ELSE <<Head(sorted)>> \o InsertSorted(e, Tail(sorted))

RECURSIVE StableSort(_)
StableSort(keyed) ==
  IF keyed = <<>> THEN <<>>
  ELSE InsertSorted(keyed[Len(keyed)], StableSort(SubSeq(keyed, 1, Len(keyed) - 1)))

SortedLargestFirst(keyed) ==
  LET sorted == StableSort(keyed) IN [i \in DOMAIN sorted |-> sorted[i].x]

generateSuggestionsForPattern(pattern) ==
  (IF pattern.type = <<"domain_interest">>
   THEN <<Suggestion(<<"pattern", pattern.id>>, "related_topic", (pattern.confidence * 8) \div 10,
                     IF pattern.confidence > 70 THEN "high" ELSE "medium")>>
   ELSE <<>>)
  \o (IF pattern.type = <<"intent_sequence">>
      THEN <<Suggestion(<<"sequence", pattern.id>>, "next_step", (pattern.confidence * 9) \div 10, "high")>>
      ELSE <<>>)

generatePatternBasedSuggestions(patterns) ==
  LET confident == SelectSeq(patterns, LAMBDA p : p.confidence > 50)
      dominantPatterns ==
        FirstN(SortedLargestFirst([i \in DOMAIN confident |->
                                     [x |-> confident[i], key |-> confident[i].confidence]]), 3)
  IN  Flatten([i \in DOMAIN dominantPatterns |-> generateSuggestionsForPattern(dominantPatterns[i])])

\* {"suggestions":[{"title":"..."}, ...]} with n entries
FollowUpReply(n) ==
  <<P("{"), S(<<"suggestions">>), P(":"), P("[")>>
    \o Join([i \in 1..n |-> <<P("{"), S(<<"title">>), P(":"), S(<<"more">>), P("}")>>], P(","))
    \o <<P("]"), P("}")>>

generateContextualFollowUps(messages, reply) ==
  IF Len(messages) < 2 THEN <<>>
  ELSE IF SelectSeq(messages, IsUser) = <<>>
          \/ SelectSeq(messages, LAMBDA m : m.type = "assistant") = <<>> THEN <<>>
  ELSE IF ~reply.ok THEN <<>>
  ELSE LET jsonMatch == ObjectMatch(reply.content)
           parsed == JSONparse(jsonMatch.text)
       IN  IF ~jsonMatch.found THEN <<>>
           ELSE IF ~parsed.ok THEN <<>>
           ELSE IF ~(HasKey(parsed.v, "suggestions") /\ GetKey(parsed.v, "suggestions").k = "arr")
           THEN <<>>
           ELSE [i \in DOMAIN GetKey(parsed.v, "suggestions").items |->
                   Suggestion(<<"contextual", i>>, "follow_up", 60, "medium")]

\* topicInterests.slice(0, 2) and interest.replace(...) need a list of strings
\* (or a string, whose characters are then taken for interests)
ExplorationThrows(memoryInsights) ==
  LET v == memoryInsights.topicInterests
  IN  \/ v.k \notin {"arr", "str"}
      \/ /\ v.k = "arr"
         /\ \E i \in DOMAIN FirstN(v.items, 2) : v.items[i].k # "str"

generateExplorationSuggestions(memoryInsights) ==
  LET v == memoryInsights.topicInterests
      topInterests == IF v.k = "arr" THEN FirstN(v.items, 2)
                      ELSE <<StrValue(<<"char">>), StrValue(<<"char">>)>>
  IN  [i \in DOMAIN topInterests |->
         Suggestion(<<"explore", topInterests[i].s>>, "exploration", 50, "low")]
      \o (IF Len(topInterests) >= 2
          THEN <<Suggestion(<<"cross_domain">>, "exploration", 40, "low")>> ELSE <<>>)

StateBoost(suggestion, conversationState) ==
  IF conversationState = "beginning" /\ suggestion.type = "exploration" THEN 20
  ELSE IF conversationState = "developing" /\ suggestion.type = "next_step" THEN 30
  ELSE IF conversationState = "deep_dive" /\ suggestion.type = "follow_up" THEN 20
  ELSE IF conversationState = "transition" /\ suggestion.type = "related_topic" THEN 20
  ELSE 0

PriorityOrder(priority) ==
  CASE priority = "high" -> 3 [] priority = "medium" -> 2 [] priority = "low" -> 1

\* priority first, confidence second
RankKey(suggestion) == PriorityOrder(suggestion.priority) * 1000 + suggestion.confidence

rankSuggestions(suggestions, conversationState) ==
  LET boosted == [i \in DOMAIN suggestions |->
                    [suggestions[i] EXCEPT !.confidence =
                       Min(@ + StateBoost(suggestions[i], conversationState), 100)]]
  IN  SortedLargestFirst([i \in DOMAIN boosted |-> [x |-> boosted[i], key |-> RankKey(boosted[i])]])

StateActions(conversationState) ==
  CASE conversationState = "beginning"  -> <<"share_goals", "ask_question">>
    [] conversationState = "developing" -> <<"more_context", "ask_examples">>
    [] conversationState = "deep_dive"  -> <<"more_detail", "ask_implementation">>
    [] conversationState = "transition" -> <<"new_topic", "connect_previous">>
    [] conversationState = "conclusion" -> <<"follow_up", "new_thread">>

generateNextBestActions(suggestions, conversationState) ==
  FirstN((IF suggestions # <<>> THEN <<<<"try", suggestions[1].id>>>> ELSE <<>>)
           \o StateActions(conversationState), 4)

generateContinuationSuggestions(messages, patterns, memoryInsights, reply) ==
  IF Len(messages) < 2 THEN generateInitialSuggestions
  ELSE IF ExplorationThrows(memoryInsights) THEN WorkflowThrows
  ELSE LET conversationState == analyzeConversationState(messages)
           allSuggestions == generatePatternBasedSuggestions(patterns)
                               \o generateContextualFollowUps(messages, reply)
                               \o generateExplorationSuggestions(memoryInsights)
                               \o identifyIncompleteWorkflows(messages, patterns)
           rankedSuggestions == rankSuggestions(allSuggestions, conversationState)
           topSuggestions == FirstN(SelectSeq(rankedSuggestions,
                                              LAMBDA x : x.confidence > MIN_CONFIDENCE_THRESHOLD),
                                    MAX_SUGGESTIONS)
       IN  WorkflowResult(topSuggestions, conversationState,
                          generateNextBestActions(topSuggestions, conversationState))

-----------------------------------------------------------------------------
(* processMessage (ai.ts 28-264), one pass cut at its suspension points *)

Passes == {"A", "B"}

NoInsights == [present |-> FALSE, value |-> getDefaultInsights]
SomeInsights(memoryInsights) == [present |-> TRUE, value |-> memoryInsights]

NoActionLog == [present |-> FALSE, action |-> "", modelUsed |-> "", conversationPatterns |-> <<>>]

ModelUsed(actionType) ==
  IF actionType = "image_prompt" THEN "gemini-prompt-generator"
  ELSE IF actionType = "image" THEN "placeholder-generator"
  ELSE "gemini-2.5-flash"

AssistantMessage(content, isImage, intent, confidence, modelUsed) ==
  [type |-> "assistant", content |-> content, isImage |-> isImage, intent |-> intent,
   confidence |-> confidence, modelUsed |-> modelUsed]

NoBundle ==
  [message |-> [type |-> "none"], actionLog |-> NoActionLog, memoryInsights |-> NoInsights,
   patterns |-> <<>>, predictiveInsights |-> <<>>, workflowSuggestions |-> <<>>,
   conversationState |-> "", nextBestActions |-> <<>>]

IdlePass ==
  [pc |-> "idle", sessionId |-> "s1", input |-> Input({}, 0), history |-> <<>>,
   existingPatterns |-> <<>>, intent |-> Classification("", 0), updatedPatterns |-> <<>>,
   memoryInsights |-> getDefaultInsights, existingProfile |-> NoProfile,
   learning |-> LearningResult(<<>>, <<>>, 0), path |-> "", actionType |-> "",
   responseContent |-> "", hypotheticalNext |-> <<>>, failedCalls |-> {},
   threw |-> "none", raised |-> FALSE, bundle |-> NoBundle,
   loadedClean |-> TRUE,
   wroteProfile |-> FALSE, wrotePatterns |-> FALSE]

\* a catch block that hands out the patterns found before the failure
PartialBundle(st) ==
  [message |-> AssistantMessage("apology", FALSE, "text", 30, "fallback"),
   actionLog |-> NoActionLog, memoryInsights |-> NoInsights,
   patterns |-> FirstN(st.updatedPatterns, 5), predictiveInsights |-> <<>>,
   workflowSuggestions |-> <<>>, conversationState |-> "beginning", nextBestActions |-> <<>>]

\* the catch block of processMessage: the fixed fallback bundle
FallbackBundle(st) ==
  [message |-> AssistantMessage("apology", FALSE, "text", 30, "fallback"),
   actionLog |-> NoActionLog, memoryInsights |-> NoInsights,
   patterns |-> <<>>, predictiveInsights |-> <<>>, workflowSuggestions |-> <<>>,
   conversationState |-> "beginning", nextBestActions |-> <<>>]

\* a mutation without the catch block: the error leaves processMessage
Uncaught(st, cause) ==
  [st EXCEPT !.pc = "done", !.threw = cause, !.raised = TRUE, !.bundle = NoBundle]

\* what the mutation resolves to when a step has thrown
Caught(st, cause) ==
  [st EXCEPT !.pc = "done", !.threw = cause, !.raised = FALSE, !.bundle = FallbackBundle(st)]

\* a dispatch that asks for clarification before it looks at the patterns
ClarifyFirstPath(intent, updatedPatterns) ==
  IF intent.intent = "image" THEN "image_prompt_generation"
  ELSE IF intent.intent = "clarify" THEN "clarification"
  ELSE IF intent.intent = "contextual_reasoning" \/ Len(updatedPatterns) > 0 THEN "contextual_reasoner"
  ELSE "text_response"

\* step 8: the response path
ResponsePath(intent, updatedPatterns) ==
  IF intent.intent = "image" THEN "image_prompt_generation"
  ELSE IF intent.intent = "contextual_reasoning" \/ Len(updatedPatterns) > 0 THEN "contextual_reasoner"
  ELSE IF intent.intent = "clarify" THEN "clarification"
  ELSE "text_response"

generateImagePrompt(reply) == IF reply.ok THEN "completion" ELSE "basic_image_prompt"
generateClarificationRequest(reply) == IF reply.ok THEN "completion" ELSE "basic_clarification"

\* step 8 as a whole: what the chosen path yields, or that it throws
Respond(st, reply) ==
  LET path == ResponsePath(st.intent, st.updatedPatterns)
      base == [threw |-> FALSE, path |-> path, called |-> TRUE,
               responseContent |-> "", actionType |-> st.intent.intent, hypotheticalNext |-> <<>>]
  IN  CASE path = "image_prompt_generation" ->
             [base EXCEPT !.responseContent = generateImagePrompt(reply),
                          !.actionType = "image_prompt"]
        [] path = "contextual_reasoner" ->
             LET r == executeContextualReasoning(st.input, st.history, st.updatedPatterns, reply)
             IN  [base EXCEPT !.responseContent = r.response, !.actionType = r.actionType,
                              !.hypotheticalNext = r.hypotheticalNext, !.called = r.called]
        [] path = "clarification" ->
             [base EXCEPT !.responseContent = generateClarificationRequest(reply)]
        [] path = "text_response" ->
             IF reply.ok THEN [base EXCEPT !.responseContent = "completion"]
             ELSE [base EXCEPT !.threw = TRUE]

\* step 9: the preferences written to the profile
MeaningfulStrength == 200
AllPreferences(st) ==
  st.existingProfile.preferences \o st.learning.newPreferences \o st.learning.reinforcedPreferences
ProfilePreferences(st) ==
  SelectSeq(AllPreferences(st), LAMBDA pref : pref.strength > MeaningfulStrength)
SavesProfile(st) ==
  Len(st.learning.newPreferences) > 0 \/ Len(st.learning.reinforcedPreferences) > 0

\* steps 10 to 14 once the follow-ups are there: the returned bundle
ReturnedBundle(st, workflowSuggestions) ==
  [message |-> AssistantMessage(st.responseContent,
                                st.actionType = "image" \/ st.actionType = "image_prompt",
                                st.actionType, st.intent.confidence, ModelUsed(st.actionType)),
   actionLog |-> [present |-> TRUE, action |-> st.actionType, modelUsed |-> ModelUsed(st.actionType),
                  conversationPatterns |-> st.updatedPatterns],
   memoryInsights |-> SomeInsights(st.memoryInsights),
   patterns |-> FirstN(st.updatedPatterns, 5),
   predictiveInsights |-> st.hypotheticalNext,
   workflowSuggestions |-> FirstN(workflowSuggestions.suggestions, 3),
   conversationState |-> workflowSuggestions.conversationState,
   nextBestActions |-> workflowSuggestions.nextBestActions]

\* no other pass has written to storage yet
NoSaveYet(p) ==
  \A q \in Passes \ {p} : ~pass[q].wroteProfile /\ ~pass[q].wrotePatterns

\* the request arrives; step 1 loads the patterns; classifyIntent is awaited
PMStart(p, sessions, inputs, histories) ==
  \E sessionId \in sessions, input \in inputs, history \in histories :
    /\ pass[p].pc = "idle"
    /\ pass' = [pass EXCEPT ![p] =
         [IdlePass EXCEPT !.pc = "analyzing", !.sessionId = sessionId, !.input = input,
                          !.history = history,
                          !.existingPatterns = loadPatterns(hasStorage, patternStore, sessionId),
                          !.loadedClean = NoSaveYet(p)]]
    /\ UNCHANGED <<uiVars, hasStorage, patternStore, profileStore, writers, patVars, gcVars, prefVars>>

\* the replies a step needs; a call that is not made has no reply to choose
PatternCallMade(st) == Len(st.history) >= 3
StyleCallMade(st) == Len(st.history) >= 3
InsightCallMade(updatedPatterns) == updatedPatterns # <<>>

\* steps 2 to 7: classification, pattern analysis, insights and style
\* detection come back; the profile is loaded and the preferences learned;
\* the response call is awaited
PMAnalyze(p, classifyReplies, patternReplies, insightReplies, styleReplies) ==
  LET st == pass[p] IN
  /\ st.pc = "analyzing"
  /\ \E classifyReply \in classifyReplies :
     \E styleReply \in (IF StyleCallMade(st) THEN styleReplies ELSE {CallFails}) :
     \E patternReply \in (IF PatternCallMade(st) THEN patternReplies ELSE {CallFails}) :
    LET intent == classifyIntent(st.input, classifyReply)
        updatedPatterns == IF Len(st.history) > 0
                           THEN analyzeConversation(st.history, patternReply, now)
                           ELSE st.existingPatterns
    IN  \E insightReply \in (IF InsightCallMade(updatedPatterns) THEN insightReplies ELSE {CallFails}) :
          LET existingProfile == loadPreferenceProfile(hasStorage, profileStore, st.sessionId)
          IN  /\ pass' = [pass EXCEPT ![p] =
                   [st EXCEPT !.pc = "responding",
                              !.intent = intent,
                              !.updatedPatterns = updatedPatterns,
                              !.memoryInsights = generateMemoryInsights(updatedPatterns, insightReply),
                              !.existingProfile = existingProfile,
                              !.learning = analyzeUserPreferences(st.history, existingProfile, now),
                              !.loadedClean = st.loadedClean /\ NoSaveYet(p),
                              !.failedCalls =
                                 (IF ~classifyReply.ok THEN {"classification"} ELSE {})
                                 \cup (IF PatternCallMade(st) /\ ~patternReply.ok THEN {"patterns"} ELSE {})
                                 \cup (IF InsightCallMade(updatedPatterns) /\ ~insightReply.ok
                                       THEN {"insights"} ELSE {})
                                 \cup (IF StyleCallMade(st) /\ ~styleReply.ok THEN {"style"} ELSE {})]]
              /\ UNCHANGED <<uiVars, hasStorage, patternStore, profileStore, writers,
                             patVars, gcVars, prefVars>>

\* step 8 comes back, or throws to the catch block; step 9 saves the
\* profile; the follow-up suggestions are awaited
PMRespond(p, replies) ==
  LET st == pass[p] IN
  /\ st.pc = "responding"
  /\ \E reply \in replies :
    LET r == Respond(st, reply)
        failed == IF r.called /\ ~reply.ok THEN {"response"} ELSE {}
    IN  /\ IF r.threw
           THEN /\ pass' = [pass EXCEPT ![p] =
                     Caught([st EXCEPT !.path = r.path, !.failedCalls = @ \cup failed], "completion")]
                /\ UNCHANGED <<profileStore, writers>>
           ELSE LET saves == SavesProfile(st)
                    stored == savePreferenceProfile(hasStorage, profileStore, st.sessionId,
                                                    ProfilePreferences(st))
                IN  /\ pass' = [pass EXCEPT ![p] =
                          [st EXCEPT !.pc = "following", !.path = r.path,
                                     !.actionType = r.actionType,
                                     !.responseContent = r.responseContent,
                                     !.hypotheticalNext = r.hypotheticalNext,
                                     !.failedCalls = @ \cup failed,
                                     !.wroteProfile = saves /\ hasStorage]]
                    /\ profileStore' = IF saves THEN stored ELSE profileStore
                    /\ writers' = IF saves /\ hasStorage
                                  THEN [writers EXCEPT !.profile[st.sessionId] = p, !.last[st.sessionId] = p]
                                  ELSE writers
        /\ UNCHANGED <<uiVars, hasStorage, patternStore, patVars, gcVars, prefVars>>

FollowUpCallMade(st) ==
  /\ Len(st.history) >= 2
  /\ SelectSeq(st.history, IsUser) # <<>>
  /\ SelectSeq(st.history, LAMBDA m : m.type = "assistant") # <<>>

\* steps 10 to 14: the follow-up suggestions come back, or the suggestion
\* step throws to the catch block; the patterns are saved; the bundle is returned
PMFinish(p, replies) ==
  LET st == pass[p] IN
  /\ st.pc = "following"
  /\ \E reply \in (IF FollowUpCallMade(st) THEN replies ELSE {CallFails}) :
    LET workflowSuggestions ==
          generateContinuationSuggestions(st.history, st.updatedPatterns, st.memoryInsights, reply)
        failed == IF FollowUpCallMade(st) /\ ~reply.ok THEN {"follow_ups"} ELSE {}
        stored == savePatterns(hasStorage, patternStore, st.sessionId, st.updatedPatterns)
    IN  /\ IF workflowSuggestions.threw
           THEN /\ pass' = [pass EXCEPT ![p] =
                     Caught([st EXCEPT !.failedCalls = @ \cup failed], "type_error")]
                /\ UNCHANGED <<patternStore, writers>>
           ELSE /\ pass' = [pass EXCEPT ![p] =
                     [st EXCEPT !.pc = "done", !.failedCalls = @ \cup failed,
                                !.bundle = ReturnedBundle(st, workflowSuggestions),
                                !.wrotePatterns = hasStorage]]
                /\ patternStore' = stored
                /\ writers' = IF hasStorage
                              THEN [writers EXCEPT !.patterns[st.sessionId] = p, !.last[st.sessionId] = p]
                              ELSE writers
        /\ UNCHANGED <<uiVars, hasStorage, profileStore, patVars, gcVars, prefVars>>

EmptyPatternStore == [s \in Sessions |-> <<>>]
EmptyProfileStore == [s \in Sessions |-> NoProfile]
NoWriters ==
  [patterns |-> [s \in Sessions |-> "none"], profile |-> [s \in Sessions |-> "none"],
   last |-> [s \in Sessions |-> "none"]]

PMIdle ==
  /\ hasStorage = FALSE
  /\ patternStore = EmptyPatternStore
  /\ profileStore = EmptyProfileStore
  /\ pass = [p \in Passes |-> IdlePass]
  /\ writers = NoWriters

-----------------------------------------------------------------------------
(* The page (Home in page.tsx) and its conversation store                   *)
(* (useConversationHistory).  An event handler and the render that follows  *)
(* it are one step: React commits the updates of a discrete event before    *)
(* the next event is dispatched, so a handler always sees the latest state. *)

MaxSubmissions == 3   \* submissions a page makes
MaxSessions == 2      \* session ids the New Chat button may create

NoSession == 0        \* activeSessionId: null
DefaultSession == -1  \* the session id 'default'

Boxes == {"", "  ", "hi", " hi "}
\* String.prototype.trim
Trim(text) == IF text \in {"", "  "} THEN "" ELSE "hi"

UserMessage(k, content) == [type |-> "user", of |-> k, via |-> content]
ResultMessage(k) == [type |-> "assistant", of |-> k, via |-> "result"]
FallbackMessage(k) == [type |-> "assistant", of |-> k, via |-> "fallback"]

EmptyStore == [sessions |-> <<>>, activeSessionId |-> NoSession]

\* generateSessionTitle: the content of the first user message (every content
\* of the model is shorter than the 30 characters the preview keeps)
generateSessionTitle(msgs) ==
  IF \E i \in DOMAIN msgs : msgs[i].type = "user"
  THEN msgs[CHOOSE i \in DOMAIN msgs :
              /\ msgs[i].type = "user"
              /\ \A j \in 1..(i - 1) : msgs[j].type # "user"].via
  ELSE "New Conversation"

\* a session as addMessage first writes it
NewSession(sessionId, message) ==
  [id |-> sessionId, title |-> generateSessionTitle(<<message>>),
   messages |-> <<message>>, galleryImages |-> <<>>]

\* the position of a session in store.sessions (key order), 0 when absent
SessionIndex(sessions, sessionId) ==
  IF \E i \in DOMAIN sessions : sessions[i].id = sessionId
  THEN CHOOSE i \in DOMAIN sessions : sessions[i].id = sessionId
  ELSE 0

\* an updater that puts the message at the head of the session's list
addMessageAtFront(prev, message, freshId) ==
  LET activeSessionId == IF prev.activeSessionId = NoSession THEN freshId
                         ELSE prev.activeSessionId
      i == SessionIndex(prev.sessions, activeSessionId)
  IN  [sessions |-> IF i = 0
                    THEN Append(prev.sessions, NewSession(activeSessionId, message))
                    ELSE [prev.sessions EXCEPT ![i].messages = <<message>> \o @],
       activeSessionId |-> activeSessionId]

\* the setStore updater of addMessage, given the id generateSessionId would return
addMessageToStore(prev, message, freshId) ==
  LET activeSessionId == IF prev.activeSessionId = NoSession THEN freshId
                         ELSE prev.activeSessionId
      i == SessionIndex(prev.sessions, activeSessionId)
  IN  [sessions |-> IF i = 0
                    THEN Append(prev.sessions, NewSession(activeSessionId, message))
                    ELSE [prev.sessions EXCEPT ![i].messages = Append(@, message)],
       activeSessionId |-> activeSessionId]

\* whether addMessage asks generateSessionId for an id
MintsSession(prev) == prev.activeSessionId = NoSession

\* addMessage: the store, the displayed list and the ids handed out afterwards
addMessage(message) ==
  /\ store' = addMessageToStore(store, message, minted + 1)
  /\ uiMessages' = Append(uiMessages, message)
  /\ minted' = IF MintsSession(store) THEN minted + 1 ELSE minted

\* no operation of the hook called yet
NoCalls ==
  [made |-> 0, op |-> "none", sessionId |-> NoSession,
   prevStore |-> EmptyStore, prevMessages |-> <<>>]

\* createNewSession: a fresh id becomes the active one, nothing is shown
createNewSessionCall ==
  /\ store' = [store EXCEPT !.activeSessionId = minted + 1]
  /\ uiMessages' = <<>>
  /\ minted' = minted + 1

\* a switch that leaves the displayed list as it was
switchKeepingDisplay(sessionId) ==
  /\ store' = [store EXCEPT !.activeSessionId = sessionId]
  /\ uiMessages' = uiMessages

\* switchToSession(sessionId)
switchToSessionCall(sessionId) ==
  LET i == SessionIndex(store.sessions, sessionId)
  IN  /\ store' = [store EXCEPT !.activeSessionId = sessionId]
      /\ uiMessages' = IF i = 0 THEN <<>> ELSE store.sessions[i].messages

\* an updater that makes the first remaining session the active one whatever was deleted
deleteSessionAndSwitch(prev, sessionId) ==
  LET newSessions == SelectSeq(prev.sessions, LAMBDA s : s.id # sessionId)
  IN  [sessions |-> newSessions,
       activeSessionId |-> IF newSessions # <<>> THEN newSessions[1].id ELSE NoSession]

\* the setStore updater of deleteSession
deleteSessionFromStore(prev, sessionId) ==
  LET newSessions == SelectSeq(prev.sessions, LAMBDA s : s.id # sessionId)
  IN  [sessions |-> newSessions,
       activeSessionId |->
         IF prev.activeSessionId = sessionId
         THEN (IF newSessions # <<>> THEN newSessions[1].id ELSE NoSession)
         ELSE prev.activeSessionId]

\* deleteSession(sessionId): the store, and the displayed list when the
\* active session was the one deleted
deleteSessionCall(sessionId) ==
  LET remainingSessions == SelectSeq(store.sessions, LAMBDA s : s.id # sessionId)
  IN  /\ store' = deleteSessionFromStore(store, sessionId)
      /\ uiMessages' = IF store.activeSessionId = sessionId
                       THEN (IF remainingSessions # <<>> THEN remainingSessions[1].messages
                             ELSE <<>>)
                       ELSE uiMessages

\* the setStore updater of renameSession
renameSessionInStore(prev, sessionId, newTitle) ==
  LET i == SessionIndex(prev.sessions, sessionId)
  IN  IF i = 0 THEN prev
      ELSE [prev EXCEPT !.sessions[i].title = newTitle]

\* the setStore updaters of the gallery operations share their guard:
\* no active session, or one not in the store yet, leaves the store alone
WithActiveGallery(prev, change(_)) ==
  LET i == SessionIndex(prev.sessions, prev.activeSessionId)
  IN  IF prev.activeSessionId = NoSession \/ i = 0 THEN prev
      ELSE [prev EXCEPT !.sessions[i].galleryImages = change(@)]

addGalleryImageToStore(prev, image) ==
  WithActiveGallery(prev, LAMBDA images : Append(images, image))

removeGalleryImageFromStore(prev, imageId) ==
  WithActiveGallery(prev, LAMBDA images : SelectSeq(images, LAMBDA img : img.id # imageId))

updateGalleryImageTitleInStore(prev, imageId, title) ==
  WithActiveGallery(prev, LAMBDA images :
    [k \in DOMAIN images |-> IF images[k].id = imageId
                             THEN [images[k] EXCEPT !.title = title]
                             ELSE images[k]])

\* clearAllHistory
clearAllHistoryCall ==
  /\ store' = EmptyStore
  /\ uiMessages' = <<>>

\* the session id of a request: activeSessionId ?? 'default'
RequestSessionId(activeSessionId) ==
  IF activeSessionId = NoSession THEN DefaultSession ELSE activeSessionId

\* a guard that forgets the loading flag
AcceptsNonBlank(text, loading) == Trim(text) # ""

\* handleSubmit's guard: if (!input.trim() || isLoading) return
Accepts(text, loading) == ~(Trim(text) = "" \/ loading)

UIIdle ==
  /\ store = EmptyStore
  /\ uiMessages = <<>>
  /\ uiInput = ""
  /\ isLoading = FALSE
  /\ viewer = [visible |-> FALSE, suggestions |-> FALSE]
  /\ requests = {}
  /\ minted = 0
  /\ sent = 0
  /\ calls = NoCalls

-----------------------------------------------------------------------------
(* GeminiClient.generateText and the TokenOptimizer it consults              *)
(* (geminiClient.ts 35-126, tokenOptimizer.ts).  Complexity scores are in    *)
(* thousandths; a prompt is its length in characters, its question marks    *)
(* and the technical terms it contains.                                    *)

Flash == "gemini-2.5-flash"
FlashLite == "gemini-2.5-flash-lite-preview-06-17"

MAX_CONTEXT_MESSAGES == 5

Prompt(length, questionMarks, techTerms) ==
  [length |-> length, questionMarks |-> questionMarks, techTerms |-> techTerms]

ImportantKeywords == {"prefer", "like", "want", "need", "always", "never", "style"}
HighConfidence == 80   \* message.confidence > 0.8, in hundredths
isHighImportanceMessage(message) ==
  \/ IncludesAny(message.content, ImportantKeywords)
  \/ message.isImage
  \/ ("confidence" \in DOMAIN message /\ message.confidence > HighConfidence)

\* Math.ceil(totalChars / 4)
estimateTokens(totalChars) == (totalChars + 3) \div 4

\* messages.reduce((sum, msg) => sum + msg.content.length, 0)
TotalChars(msgs) == SumOver([i \in DOMAIN msgs |-> msgs[i].length], Len(msgs))

\* an optimizer that keeps the first two important messages instead of the last two
optimizeKeepingEarliest(history) ==
  IF Len(history) <= MAX_CONTEXT_MESSAGES
  THEN [optimizedMessages |-> history, strategy |-> "no_optimization_needed", tokensSaved |-> 0]
  ELSE LET recentMessages == LastN(history, MAX_CONTEXT_MESSAGES)
           importantMessages == SelectSeq(FirstN(history, Len(history) - MAX_CONTEXT_MESSAGES),
                                          isHighImportanceMessage)
           optimizedMessages == FirstN(importantMessages, 2) \o recentMessages
       IN  [optimizedMessages |-> optimizedMessages, strategy |-> "recent_plus_important",
            tokensSaved |-> estimateTokens(TotalChars(history))
                              - estimateTokens(TotalChars(optimizedMessages))]

optimizeConversationHistory(history) ==
  IF Len(history) <= MAX_CONTEXT_MESSAGES
  THEN [optimizedMessages |-> history, strategy |-> "no_optimization_needed", tokensSaved |-> 0]
  ELSE LET recentMessages == LastN(history, MAX_CONTEXT_MESSAGES)
           importantMessages == SelectSeq(FirstN(history, Len(history) - MAX_CONTEXT_MESSAGES),
                                          isHighImportanceMessage)
           optimizedMessages == LastN(importantMessages, 2) \o recentMessages
       IN  [optimizedMessages |-> optimizedMessages, strategy |-> "recent_plus_important",
            tokensSaved |-> estimateTokens(TotalChars(history))
                              - estimateTokens(TotalChars(optimizedMessages))]

\* history.slice(-n).map(m => `${m.type}: ${m.content.slice(0, cut)}`).join('\n').length
ContextChars(history, n, cut) ==
  LET recent == LastN(history, n)
  IN  IF recent = <<>> THEN 0
      ELSE SumOver([i \in DOMAIN recent |->
                      (IF recent[i].type = "user" THEN 4 ELSE 9) + 2 + Min(recent[i].length, cut)],
                   Len(recent))
           + (Len(recent) - 1)

detectUserStyle(history) ==
  LET userMessages == SelectSeq(history, IsUser)
      total == SumOver([i \in DOMAIN userMessages |-> userMessages[i].length], Len(userMessages))
  IN  IF Len(history) < 3 \/ userMessages = <<>> THEN "casual"
      ELSE IF total > 100 * Len(userMessages) THEN "detailed"
      ELSE IF total < 30 * Len(userMessages) THEN "brief"
      ELSE "casual"

\* the length of the prompt createOptimizedPrompt builds
createOptimizedPrompt(operation, input, history, userStyle) ==
  CASE operation = "intent_classification" ->
         24 + input.length
            + (IF ContextChars(history, 2, 100) > 0 THEN 9 + ContextChars(history, 2, 100) ELSE 0)
            + 83
    [] operation = "pattern_analysis" ->
         21 + ContextChars(history, 3, 150) + 51
    [] operation = "response_generation" ->
         (7 + Len(userStyle) + 1)
           + (IF ContextChars(history, 3, 200) > 0 THEN 9 + ContextChars(history, 3, 200) + 1 ELSE 0)
           + 6 + input.length + 19

calculateComplexity(input, history) ==
  Min(Min(2 * input.length, 300)
        + Min(input.questionMarks * 100, 200)
        + Min(input.techTerms * 150, 300)
        + Min(Len(history) * 50, 200),
      1000)

LiteComplexity == 500
ShortContextTokens == 200
ShortContextComplexity == 700

selectOptimalModel(operation, complexityScore, tokenCount) ==
  IF operation = "intent_classification" /\ complexityScore < LiteComplexity THEN FlashLite
  ELSE IF tokenCount < ShortContextTokens /\ complexityScore < ShortContextComplexity
       THEN FlashLite
  ELSE Flash

\* const selectedModel = config.model || modelSelection.model
SelectedModel(configModel, selected) == IF configModel # "" THEN configModel ELSE selected

NoCall ==
  [called |-> FALSE, site |-> "", input |-> Prompt(0, 0, 0), operation |-> "", complexityScore |-> 0,
   estimatedTokens |-> 0, selection |-> "", model |-> ""]

\* generateText up to the request it sends
generateText(site, input, history, configModel, operation) ==
  LET optimized == optimizeConversationHistory(history).optimizedMessages
      prompt == createOptimizedPrompt(operation, input, optimized, detectUserStyle(history))
      complexityScore == calculateComplexity(input, history)
      estimatedTokens == estimateTokens(prompt)
      selection == selectOptimalModel(operation, complexityScore, estimatedTokens)
  IN  [called |-> TRUE, site |-> site, input |-> input, operation |-> operation,
       complexityScore |-> complexityScore, estimatedTokens |-> estimatedTokens,
       selection |-> selection, model |-> SelectedModel(configModel, selection)]

NotOptimized == [messages |-> <<>>, done |-> FALSE, result |-> <<>>]

-----------------------------------------------------------------------------
(* CommunicationStyleAdapter.detectCommunicationStyle                       *)
(* (communicationStyleAdapter.ts 19-198).  A message is the keywords it      *)
(* contains, its number of words and the average number of words of its     *)
(* sentences.  Heuristic scores are in tenths, kept as exact sums; the AI    *)
(* ratings are in tenths.                                                   *)

\* Object.entries order of the score records
StyleOrder == <<"direct", "casual", "detailed", "creative", "technical", "formal">>

STYLE_INDICATORS ==
  [direct |-> [keywords |-> {"brief", "quick", "summary", "short", "simple", "tldr"},
               responseLength |-> "short"],
   casual |-> [keywords |-> {"hey", "thanks", "cool", "awesome", "nice", "great"},
               responseLength |-> "medium"],
   detailed |-> [keywords |-> {"explain", "elaborate", "details", "comprehensive", "thorough", "deep"},
                 responseLength |-> "long"],
   creative |-> [keywords |-> {"innovative", "creative", "unique", "artistic", "imaginative", "original"},
                 responseLength |-> "medium"],
   technical |-> [keywords |-> {"implement", "algorithm", "architecture", "system", "optimize",
                                "performance"},
                  responseLength |-> "long"],
   formal |-> [keywords |-> {"please", "kindly", "would you", "could you", "thank you"},
               responseLength |-> "medium"]]

StyleMessage(t, content, wordCount, avgSentenceLength) ==
  [type |-> t, content |-> content, wordCount |-> wordCount,
   avgSentenceLength |-> avgSentenceLength]

\* what one message adds to the score of one style, in tenths
StyleScore(styleName, message) ==
  LET indicators == STYLE_INDICATORS[styleName]
      keywordMatches == Cardinality(indicators.keywords \cap message.content)
  IN  keywordMatches * 3
      + (IF indicators.responseLength = "short" /\ message.wordCount < 20 THEN 2 ELSE 0)
      + (IF indicators.responseLength = "long" /\ message.wordCount > 50 THEN 2 ELSE 0)
      + (IF indicators.responseLength = "medium" /\ message.wordCount >= 20
            /\ message.wordCount <= 50 THEN 1 ELSE 0)
      + (IF styleName = "direct" /\ message.avgSentenceLength < 10 THEN 2 ELSE 0)
      + (IF styleName = "detailed" /\ message.avgSentenceLength > 15 THEN 2 ELSE 0)
      + (IF (styleName = "formal" /\ "please" \in message.content)
            \/ "thank you" \in message.content THEN 3 ELSE 0)

\* calculateStyleScores before its normalisation: the sums, in tenths
RawStyleScores(msgs) ==
  [styleName \in Range(StyleOrder) |->
     SumOver([i \in DOMAIN msgs |-> StyleScore(styleName, msgs[i])], Len(msgs))]

MaxOf(scores) == CHOOSE x \in Range(scores) : \A y \in Range(scores) : y <= x

\* performAIStyleAnalysis: the parsed ratings, or the neutral scores when the
\* call fails or its text holds no {...}; a style the reply leaves out reads as 0
NeutralScores ==
  [direct |-> 3, casual |-> 5, detailed |-> 3, creative |-> 2, technical |-> 2, formal |-> 3]
performAIStyleAnalysis(reply) ==
  IF reply.ok THEN [styleName \in Range(StyleOrder) |->
                      IF styleName \in DOMAIN reply.content THEN reply.content[styleName] ELSE 0]
  ELSE NeutralScores

\* combineAnalyses after calculateStyleScores' normalisation by the maximum:
\* 0.6 * (raw / max) + 0.4 * ai, times 100 * max so that it stays whole
\* (times 100 when every raw score is 0 and nothing is normalised)
combineAnalyses(rawScores, aiScores) ==
  LET maxScore == MaxOf([i \in DOMAIN StyleOrder |-> rawScores[StyleOrder[i]]])
  IN  [styleName \in Range(StyleOrder) |->
         IF maxScore > 0 THEN 6 * 10 * rawScores[styleName] + 4 * aiScores[styleName] * maxScore
         ELSE 4 * aiScores[styleName]]

\* entries.reduce((a, b) => combinedScores[a[0]] > combinedScores[b[0]] ? a : b)
\* over the first n entries
RECURSIVE DominantStyle(_, _)
DominantStyle(combinedScores, n) ==
  IF n = 1 THEN StyleOrder[1]
  ELSE LET a == DominantStyle(combinedScores, n - 1)
           b == StyleOrder[n]
       IN  IF combinedScores[a] > combinedScores[b] THEN a ELSE b

\* detectCommunicationStyle: the style name and the scores it was chosen from
detectCommunicationStyle(messages, reply) ==
  IF Len(messages) < 3
  THEN [name |-> "casual", combinedScores |-> [styleName \in Range(StyleOrder) |-> 0],
        analyzed |-> FALSE]
  ELSE LET recentMessages == LastN(SelectSeq(messages, IsUser), 5)
           combinedScores == combineAnalyses(RawStyleScores(recentMessages),
                                             performAIStyleAnalysis(reply))
       IN  [name |-> DominantStyle(combinedScores, Len(StyleOrder)),
            combinedScores |-> combinedScores, analyzed |-> TRUE]

NoStyleCall == [messages |-> <<>>, done |-> FALSE, result |-> <<>>]

NoStateCall == [messages |-> <<>>, done |-> FALSE, result |-> ""]

GCIdle ==
  /\ llm = NoCall
  /\ opt = NotOptimized
  /\ styleCall = NoStyleCall
  /\ stateCall = NoStateCall

-----------------------------------------------------------------------------
(* The pattern engine driven by a caller: SpecPatterns *)

\* [{"type":"preference","pattern":"likes cats","confidence":0.9,"examples":[n quotes]}]
ReplyOnePattern(nExamples) ==
  ReplyArray(<<ReplyItem("preference", <<"likes", "cats">>, 90, nExamples)>>)

\* two patterns, the second one reinforced by "create image"
ReplyTwoPatterns ==
  ReplyArray(<<ReplyItem("domain_interest", <<"cats">>, 70, 1),
               ReplyItem("preference", <<"wants", "image">>, 60, 2)>>)

\* a pattern below the threshold and one whose confidence is written as 1.5
ReplyOddConfidences ==
  ReplyArray(<<ReplyItem("preference", <<"likes", "cats">>, 50, 0),
               ReplyItem("intent_sequence", <<"cats", "->", "image">>, 150, 0)>>)

\* the contract's array with a trailing comma: [{...},]
ReplyTrailingComma ==
  <<P("[")>> \o ReplyItem("preference", <<"likes", "cats">>, 90, 1) \o <<P(","), P("]")>>

\* [{'pattern':'cats','confidence':0.9}] in single quotes
ReplySingleQuotes ==
  <<P("["), P("{"), Q(<<"pattern">>), P(":"), Q(<<"cats">>), P(","),
    Q(<<"confidence">>), P(":"), N(90), P("}"), P("]")>>

\* [{"pattern":1,"confidence":0.9}]
ReplyNumberPattern ==
  <<P("["), P("{"), S(<<"pattern">>), P(":"), N(100), P(","),
    S(<<"confidence">>), P(":"), N(90), P("}"), P("]")>>

\* the texts the completion capability may return to the pattern analysis prompt
PatternReplies ==
  { <<W("none")>>,                          \* prose, no array
    ReplyArray(<<>>),                       \* []
    <<P("["), S(<<"a">>), P(","), S(<<"b">>), P("]")>>,   \* ["a","b"]
    ReplyOnePattern(0),
    ReplyOnePattern(ReplyExamples),
    ReplyTwoPatterns,
    ReplyOddConfidences,
    ReplyTrailingComma,
    ReplySingleQuotes,
    ReplyNumberPattern }

PatternOutcomes == {CallFails} \cup {Reply(c) : c \in PatternReplies}

\* the conversations a caller may hold; a history is the first messages of one
Conversations ==
  { <<UImg, UImg, UImg, AOk, UImg>>,
    <<UImg, AOk, UImg, AOk, UCat>>,
    <<UCat, AOk, UImg, AOk, UCat>> }

PatHistories == {FirstN(c, k) : c \in Conversations, k \in 0..MaxPatHist}

\* analyzeConversation reads the history in two places only, the length test
\* and the detection fallback; a reply that arrives is parsed whatever the
\* history was, so the replies are enumerated against one history
RepliedHistory == <<UCat, AOk, UImg>>
OutcomesFor(messages) ==
  IF messages = RepliedHistory THEN PatternOutcomes ELSE {CallFails}

NoOp == [op |-> "none", at |-> 0, n |-> 0, ok |-> TRUE, messages |-> <<>>]

PatIdle ==
  /\ now = 0
  /\ pats = <<>>
  /\ patOp = NoOp
  /\ patPrev = <<>>

InitPatterns ==
  /\ GCIdle
  /\ PatIdle
  /\ UIIdle
  /\ PrefIdle
  /\ PMIdle

\* a caller runs analyzeConversation and keeps the result
PatAnalyze ==
  \E messages \in PatHistories : \E reply \in OutcomesFor(messages) :
    /\ pats' = analyzeConversation(messages, reply, now)
    /\ patOp' = [op |-> "analyze", at |-> now, n |-> Len(messages), ok |-> reply.ok,
                 messages |-> messages]
    /\ patPrev' = <<>>
    /\ UNCHANGED <<uiVars, now, prefVars, gcVars, pmVars>>

\* a caller runs updatePatterns on the list it holds and keeps the result
PatUpdate ==
  \E newMessage \in {UImg, UCat}, response \in {AOk} :
    /\ pats # <<>>
    /\ \A i \in DOMAIN pats : pats[i].occurrences < MaxOccurrences
    /\ pats' = updatePatterns(newMessage, response, pats, now)
    /\ patPrev' = ReinforcedPatterns(newMessage, response, pats, now)
    /\ patOp' = [op |-> "update", at |-> now, n |-> Len(pats), ok |-> TRUE,
                 messages |-> <<newMessage, response>>]
    /\ UNCHANGED <<uiVars, now, prefVars, gcVars, pmVars>>

\* a day passes
Tick ==
  /\ now < MaxNow
  /\ now' = now + 1
  /\ UNCHANGED <<uiVars, pats, patOp, patPrev, prefVars, gcVars, pmVars>>

NextPatterns == PatAnalyze \/ PatUpdate \/ Tick

SpecPatterns == InitPatterns /\ [][NextPatterns]_vars

-----------------------------------------------------------------------------
(* Preference learning driven by a caller: SpecPreferences *)

PrefHistories == SeqsUpTo({UImg, ULong, AOk}, MaxPrefHist)

\* stored preferences, every value within [0, 1]
StoredConcise == Preference("response_style", "concise", 1000, 1000, 0, 1)
StoredFaint == Preference("content_type", "creative", 104, 104, 0, 1)
StoredDetailed == Preference("response_style", "detailed", 110, 130, 0, 1)

PrefProfiles ==
  { NoProfile,
    Profile(<<>>),
    Profile(<<StoredConcise>>),
    Profile(<<StoredFaint, StoredDetailed>>),
    Profile(<<StoredDetailed, StoredConcise, StoredDetailed>>) }

InitPreferences ==
  /\ GCIdle
  /\ PatIdle
  /\ UIIdle
  /\ PMIdle
  /\ prefExisting \in PrefProfiles
  /\ prefOut = NoResult

\* the caller loads another stored profile
PrefLoad ==
  \E profile \in PrefProfiles :
    /\ profile # prefExisting
    /\ prefExisting' = profile
    /\ prefOut' = NoResult
    /\ UNCHANGED <<uiVars, patVars, gcVars, pmVars>>

\* the caller runs analyzeUserPreferences against the loaded profile
PrefAnalyze ==
  \E messages \in PrefHistories :
    /\ prefOut' = [called |-> TRUE, messages |-> messages,
                   result |-> analyzeUserPreferences(messages, prefExisting, now)]
    /\ UNCHANGED <<uiVars, prefExisting, patVars, gcVars, pmVars>>

NextPreferences == PrefLoad \/ PrefAnalyze

SpecPreferences == InitPreferences /\ [][NextPreferences]_vars

-----------------------------------------------------------------------------
(* processMessage passes one after the other: SpecProcess; two passes that
   may overlap: SpecRace *)

\* what a session may have persisted before the passes observed
SeedStrong ==
  [id |-> <<"seed_strong">>, type |-> <<"preference">>, pattern |-> <<"likes", "dogs">>,
   confidence |-> 90, occurrences |-> 3, lastSeen |-> 0, examples |-> <<>>]
SeedWeak ==
  [id |-> <<"seed_weak">>, type |-> <<"domain_interest">>, pattern |-> <<"birds">>,
   confidence |-> 60, occurrences |-> 1, lastSeen |-> 0 - (WeekDays + 1), examples |-> <<>>]

SeededPatternStores ==
  { EmptyPatternStore,
    savePatterns(TRUE, EmptyPatternStore, "s1", <<SeedStrong, SeedWeak>>) }
SeededProfileStores ==
  { EmptyProfileStore,
    savePreferenceProfile(TRUE, EmptyProfileStore, "s1", <<StoredConcise, StoredDetailed>>) }

InitStorage ==
  /\ hasStorage \in BOOLEAN
  /\ patternStore \in (IF hasStorage THEN SeededPatternStores ELSE {EmptyPatternStore})
  /\ profileStore \in (IF hasStorage THEN SeededProfileStores ELSE {EmptyProfileStore})
  /\ pass = [p \in Passes |-> IdlePass]
  /\ writers = NoWriters

CImage == Input({"create", "image"}, 20)     \* "create an image ..."
CCats  == Input({"more", "cats"}, 20)        \* plain text about cats
CWhat  == Input({"what"}, 5)                 \* "what?"
ProcessInputs == {CImage, CCats, CWhat}

HLong == <<UImg, AOk, UImg>>
ProcessHistories == {<<>>, <<UCat>>, HLong}

IntentNames == {"text", "image", "image_prompt", "clarify", "contextual_reasoning"}
ClassifyReplies ==
  {CallFails, Reply(ClassifyReplyNoIntent)} \cup {Reply(ClassifyReply(i, 90)) : i \in IntentNames}
PatternAnalysisReplies == {CallFails, Reply(ReplyTwoPatterns), Reply(<<W("none")>>)}
InsightReplies == {CallFails, Reply(InsightReplyList), Reply(InsightReplyObject)}
TextReplies == {CallFails, Reply(<<W("text")>>)}
FollowUpReplies == {CallFails, Reply(FollowUpReply(2))}

InitProcess ==
  /\ GCIdle
  /\ PatIdle
  /\ UIIdle
  /\ PrefIdle
  /\ InitStorage

ProcStart == PMStart("A", Sessions, ProcessInputs, ProcessHistories)
ProcAnalyze == PMAnalyze("A", ClassifyReplies, PatternAnalysisReplies, InsightReplies, TextReplies)
ProcRespond == PMRespond("A", TextReplies)
ProcFinish == PMFinish("A", FollowUpReplies)

NextProcess == ProcStart \/ ProcAnalyze \/ ProcRespond \/ ProcFinish

SpecProcess == InitProcess /\ [][NextProcess]_vars

\* two passes, each run once, free to overlap; the replies are the ones that
\* make the two passes compute different patterns and profiles
HPolite == <<ULong, AOk, ULong>>
RaceHistories == {<<>>, HLong, HPolite}
RacePatternReplies == {CallFails, Reply(ReplyTwoPatterns)}

RaceStart == \E p \in Passes : PMStart(p, Sessions, {CCats}, RaceHistories)
RaceAnalyze == \E p \in Passes : PMAnalyze(p, {CallFails}, RacePatternReplies, {CallFails}, {CallFails})
RaceRespond == \E p \in Passes : PMRespond(p, TextReplies)
RaceFinish == \E p \in Passes : PMFinish(p, {CallFails})

NextRace == RaceStart \/ RaceAnalyze \/ RaceRespond \/ RaceFinish

SpecRace == InitProcess /\ [][NextRace]_vars

-----------------------------------------------------------------------------
(* Properties of the pattern engine, checked under SpecPatterns *)

\* C7: every pattern returned by analyzeConversation or by updatePatterns,
\* whatever the completion returned and whatever calls came before, carries
\* at most 5 examples.
C7_AtMostFiveExamples ==
  \A i \in DOMAIN pats : Len(pats[i].examples) <= 5

\* the detected image preference, reinforced until its example list was cut
\* back to five
C7_Witness ==
  /\ patOp.op = "update"
  /\ \E i \in DOMAIN pats :
       /\ pats[i].id = <<"image_preference">>
       /\ pats[i].occurrences = 6
       /\ Len(pats[i].examples) = 5

\* C9 (as the code has it): the cleanup that ends updatePatterns removes
\* exactly the patterns last seen 7 days ago or earlier, of confidence <= 0.8
\* and of occurrence < 2; every other pattern is kept, unchanged and in order.
C9_CleanupRemovesExactly ==
  patOp.op = "update" =>
    pats = SelectSeq(patPrev, LAMBDA p :
             ~(p.lastSeen <= patOp.at - 7 /\ p.confidence <= 80 /\ p.occurrences < 2))

\* C9 as stated: the removed patterns are exactly those last seen MORE than
\* 7 days ago, of confidence <= 0.8 and of occurrence < 2.
C9_AsStated ==
  patOp.op = "update" =>
    pats = SelectSeq(patPrev, LAMBDA p :
             ~(p.lastSeen < patOp.at - 7 /\ p.confidence <= 80 /\ p.occurrences < 2))

\* an update whose cleanup removed one pattern and kept another
C9_Witness ==
  /\ patOp.op = "update"
  /\ pats # <<>>
  /\ Len(pats) < Len(patPrev)

-----------------------------------------------------------------------------
(* Properties of preference learning, checked under SpecPreferences *)

\* C8: every preference returned by analyzeUserPreferences, new or merged from
\* the existing profile, has its strength and its confidence within [0, 1],
\* whenever the values of the existing profile are within [0, 1].
C8_StrengthAndConfidenceInRange ==
  (/\ prefOut.called
   /\ \A i \in DOMAIN prefExisting.preferences :
        /\ prefExisting.preferences[i].strength \in 0..1000
        /\ prefExisting.preferences[i].confidence \in 0..1000)
  => \A p \in Range(prefOut.result.newPreferences) \cup Range(prefOut.result.reinforcedPreferences) :
       /\ p.strength \in 0..1000
       /\ p.confidence \in 0..1000

-----------------------------------------------------------------------------
(* The page driven by its user and by the returning calls: SpecUI *)

\* a conversation kept from an earlier visit
StoredExchange == <<UserMessage(0, "hi"), ResultMessage(0)>>
LoadedStores ==
  {EmptyStore,
   [sessions |-> <<[id |-> 1, title |-> generateSessionTitle(StoredExchange),
                    messages |-> StoredExchange, galleryImages |-> <<>>]>>,
    activeSessionId |-> 1]}

\* what the page reads of a returned bundle: whether it has an action log,
\* whether its workflowSuggestions are non-empty
Results == [actionLog : BOOLEAN, suggestions : BOOLEAN]

\* the state after the mount effect has read the stored conversations
InitUI ==
  /\ GCIdle
  /\ PatIdle
  /\ PrefIdle
  /\ PMIdle
  /\ store \in LoadedStores
  /\ uiMessages = (IF SessionIndex(store.sessions, store.activeSessionId) = 0 THEN <<>>
                 ELSE store.sessions[SessionIndex(store.sessions, store.activeSessionId)].messages)
  /\ minted = Len(store.sessions)
  /\ uiInput = ""
  /\ isLoading = FALSE
  /\ viewer = [visible |-> FALSE, suggestions |-> FALSE]
  /\ requests = {}
  /\ sent = 0
  /\ calls = NoCalls

\* onChange of the input box, which is disabled while loading
handleChange ==
  /\ ~isLoading
  /\ \E text \in Boxes \ {uiInput} : uiInput' = text
  /\ UNCHANGED <<store, uiMessages, isLoading, viewer, requests, minted, sent,
                 calls, patVars, gcVars, prefVars, pmVars>>

\* onSuggestionClick: the suggested prompt is put in the input box
onSuggestionClick ==
  /\ viewer.suggestions
  /\ uiInput' = "hi"
  /\ viewer' = [viewer EXCEPT !.visible = FALSE]
  /\ UNCHANGED <<store, uiMessages, isLoading, requests, minted, sent,
                 calls, patVars, gcVars, prefVars, pmVars>>

\* handleSubmit up to its await
handleSubmit ==
  /\ sent < MaxSubmissions
  /\ Accepts(uiInput, isLoading)
  /\ addMessage(UserMessage(sent + 1, Trim(uiInput)))
  /\ uiInput' = ""
  /\ isLoading' = TRUE
  /\ requests' = requests \cup {[of |-> sent + 1, sessionId |-> RequestSessionId(store.activeSessionId),
                                 conversationHistory |-> uiMessages]}
  /\ sent' = sent + 1
  /\ UNCHANGED <<viewer, calls, patVars, gcVars, prefVars, pmVars>>

\* handleSubmit after its await, the call having resolved
handleResult ==
  /\ \E r \in requests, result \in Results :
       /\ addMessage(ResultMessage(r.of))
       /\ viewer' = [visible |-> IF result.actionLog THEN TRUE ELSE viewer.visible,
                     suggestions |-> result.suggestions]
       /\ isLoading' = FALSE
       /\ requests' = requests \ {r}
  /\ UNCHANGED <<uiInput, sent, calls, patVars, gcVars, prefVars, pmVars>>

\* handleSubmit after its await, the call having rejected
handleError ==
  /\ \E r \in requests :
       /\ addMessage(FallbackMessage(r.of))
       /\ isLoading' = FALSE
       /\ requests' = requests \ {r}
  /\ UNCHANGED <<uiInput, viewer, sent, calls, patVars, gcVars, prefVars, pmVars>>

\* the New Chat button
createNewSession ==
  /\ minted < MaxSessions
  /\ createNewSessionCall
  /\ UNCHANGED <<uiInput, isLoading, viewer, requests, sent, calls, patVars, gcVars, prefVars, pmVars>>

\* a click on a listed session other than the active one
switchToSession ==
  /\ \E i \in DOMAIN store.sessions :
       /\ store.sessions[i].id # store.activeSessionId
       /\ switchToSessionCall(store.sessions[i].id)
  /\ UNCHANGED <<uiInput, isLoading, viewer, requests, minted, sent,
                 calls, patVars, gcVars, prefVars, pmVars>>

\* the Delete button of a listed session
deleteSession ==
  /\ \E i \in DOMAIN store.sessions : deleteSessionCall(store.sessions[i].id)
  /\ UNCHANGED <<uiInput, isLoading, viewer, requests, minted, sent,
                 calls, patVars, gcVars, prefVars, pmVars>>

\* the Clear All Conversations button, shown when a session is listed
clearAllHistory ==
  /\ store.sessions # <<>>
  /\ clearAllHistoryCall
  /\ UNCHANGED <<uiInput, isLoading, viewer, requests, minted, sent,
                 calls, patVars, gcVars, prefVars, pmVars>>

\* the awaited processMessage call returns
CallReturns == handleResult \/ handleError

NextUI ==
  \/ handleChange
  \/ onSuggestionClick
  \/ handleSubmit
  \/ handleResult
  \/ handleError
  \/ createNewSession
  \/ switchToSession
  \/ deleteSession
  \/ clearAllHistory

\* an outstanding call returns in the end; the user may stop at any time
SpecUI == InitUI /\ [][NextUI]_vars /\ WF_vars(CallReturns)


-----------------------------------------------------------------------------
(* The conversation store driven through the operations the hook returns:   *)
(* SpecSessions.  Every operation may be called at any time, in any order.   *)

MaxCalls == 6   \* calls of the hook's operations in one behaviour

HookMessages == {UserMessage(1, "hi"), ResultMessage(1)}
NewTitles == {"Renamed"}
\* the image the next call would add (ids are gallery_<Date.now()>)
GalleryImage(n) == [id |-> n, title |-> "Chat Image"]
\* the record of a call: which operation, on which session, and the store
\* and displayed list it found
Called(op, sessionId) ==
  [made |-> calls.made + 1, op |-> op, sessionId |-> sessionId,
   prevStore |-> store, prevMessages |-> uiMessages]

InitSessions ==
  /\ GCIdle
  /\ PatIdle
  /\ PrefIdle
  /\ PMIdle
  /\ UIIdle

AddMessage ==
  /\ calls.made < MaxCalls
  /\ \E message \in HookMessages : addMessage(message)
  /\ calls' = Called("addMessage", store.activeSessionId)
  /\ UNCHANGED <<uiInput, isLoading, viewer, requests, sent, patVars, gcVars, prefVars, pmVars>>

CreateNewSession ==
  /\ calls.made < MaxCalls
  /\ createNewSessionCall
  /\ calls' = Called("createNewSession", minted + 1)
  /\ UNCHANGED <<uiInput, isLoading, viewer, requests, sent, patVars, gcVars, prefVars, pmVars>>

SwitchToSession ==
  /\ calls.made < MaxCalls
  /\ \E i \in DOMAIN store.sessions :
       /\ switchToSessionCall(store.sessions[i].id)
       /\ calls' = Called("switchToSession", store.sessions[i].id)
  /\ UNCHANGED <<uiInput, isLoading, viewer, requests, minted, sent,
                 patVars, gcVars, prefVars, pmVars>>

DeleteSession ==
  /\ calls.made < MaxCalls
  /\ \E i \in DOMAIN store.sessions :
       /\ deleteSessionCall(store.sessions[i].id)
       /\ calls' = Called("deleteSession", store.sessions[i].id)
  /\ UNCHANGED <<uiInput, isLoading, viewer, requests, minted, sent,
                 patVars, gcVars, prefVars, pmVars>>

RenameSession ==
  /\ calls.made < MaxCalls
  /\ \E i \in DOMAIN store.sessions, newTitle \in NewTitles :
       /\ store' = renameSessionInStore(store, store.sessions[i].id, newTitle)
       /\ calls' = Called("renameSession", store.sessions[i].id)
  /\ UNCHANGED <<uiMessages, uiInput, isLoading, viewer, requests, minted, sent,
                 patVars, gcVars, prefVars, pmVars>>

AddGalleryImage ==
  /\ calls.made < MaxCalls
  /\ store' = addGalleryImageToStore(store, GalleryImage(calls.made + 1))
  /\ calls' = Called("addGalleryImage", store.activeSessionId)
  /\ UNCHANGED <<uiMessages, uiInput, isLoading, viewer, requests, minted, sent,
                 patVars, gcVars, prefVars, pmVars>>

\* the gallery lists the images of the active session
ActiveImageIds ==
  LET i == SessionIndex(store.sessions, store.activeSessionId)
  IN  IF i = 0 THEN {}
      ELSE {store.sessions[i].galleryImages[k].id : k \in DOMAIN store.sessions[i].galleryImages}

RemoveGalleryImage ==
  /\ calls.made < MaxCalls
  /\ \E imageId \in ActiveImageIds : store' = removeGalleryImageFromStore(store, imageId)
  /\ calls' = Called("removeGalleryImage", store.activeSessionId)
  /\ UNCHANGED <<uiMessages, uiInput, isLoading, viewer, requests, minted, sent,
                 patVars, gcVars, prefVars, pmVars>>

UpdateGalleryImageTitle ==
  /\ calls.made < MaxCalls
  /\ \E imageId \in ActiveImageIds, title \in NewTitles :
       store' = updateGalleryImageTitleInStore(store, imageId, title)
  /\ calls' = Called("updateGalleryImageTitle", store.activeSessionId)
  /\ UNCHANGED <<uiMessages, uiInput, isLoading, viewer, requests, minted, sent,
                 patVars, gcVars, prefVars, pmVars>>

ClearAllHistory ==
  /\ calls.made < MaxCalls
  /\ clearAllHistoryCall
  /\ calls' = Called("clearAllHistory", NoSession)
  /\ UNCHANGED <<uiInput, isLoading, viewer, requests, minted, sent,
                 patVars, gcVars, prefVars, pmVars>>

NextSessions ==
  \/ AddMessage
  \/ CreateNewSession
  \/ SwitchToSession
  \/ DeleteSession
  \/ RenameSession
  \/ AddGalleryImage
  \/ RemoveGalleryImage
  \/ UpdateGalleryImageTitle
  \/ ClearAllHistory

SpecSessions == InitSessions /\ [][NextSessions]_vars

-----------------------------------------------------------------------------
(* The completion client called from its call sites: SpecModel *)

CallSite(site, model, operation, history) ==
  [site |-> site, model |-> model, operation |-> operation, history |-> history]

\* every generateText call of the repository: the model its config names, the
\* operation it passes (response_generation when it passes none), and whether
\* it hands over the conversation history
CallSites ==
  { CallSite("classifyIntent", Flash, "response_generation", FALSE),
    CallSite("analyzeConversation", Flash, "response_generation", FALSE),
    CallSite("generateMemoryInsights", Flash, "response_generation", FALSE),
    CallSite("performAIStyleAnalysis", FlashLite, "pattern_analysis", FALSE),
    CallSite("generateContextualFollowUps", FlashLite, "pattern_analysis", FALSE),
    CallSite("analyzeConversationContext", Flash, "response_generation", FALSE),
    CallSite("generateHypotheticalIntents", FlashLite, "response_generation", FALSE),
    CallSite("generateContextualResponse", Flash, "response_generation", FALSE),
    CallSite("generateImagePrompt", Flash, "response_generation", FALSE),
    CallSite("generateClarificationRequest", FlashLite, "response_generation", FALSE),
    CallSite("processMessage", Flash, "response_generation", TRUE) }

MaxPromptLength == 900

Prompts ==
  { Prompt(length, questionMarks, techTerms) :
      length \in {40, 600, MaxPromptLength}, questionMarks \in {0, 3}, techTerms \in {0, 2} }

GCHistories == {<<>>, <<UCat>>, <<UImg, AOk, UImg>>, <<ULong, AOk, ULong, AOk, ULong, AOk>>}

InitModel ==
  /\ PatIdle
  /\ PrefIdle
  /\ PMIdle
  /\ UIIdle
  /\ GCIdle

GenerateText ==
  /\ \E c \in CallSites, input \in Prompts :
       \E history \in (IF c.history THEN GCHistories ELSE {<<>>}) :
         llm' = generateText(c.site, input, history, c.model, c.operation)
  /\ UNCHANGED <<opt, styleCall, stateCall, patVars, prefVars, pmVars, uiVars>>

NextModel == GenerateText

SpecModel == InitModel /\ [][NextModel]_vars


-----------------------------------------------------------------------------
(* optimizeConversationHistory applied to a conversation: SpecOptimize *)

MaxHistory == 8   \* messages in the conversation handed over

\* a plain message, one with an important keyword, an image, and a reply
\* with a confidence above 0.8
UPlain == Message("user", {"cats"}, 10, FALSE)
UPrefer == Message("user", {"prefer", "dogs"}, 13, FALSE)
AImage == Message("assistant", {"https"}, 37, TRUE)
ASure == [type |-> "assistant", content |-> {"sure"}, length |-> 60, isImage |-> FALSE,
          confidence |-> 90]
OptMessages == {UPlain, UPrefer, AImage, ASure}

InitOptimize ==
  /\ PatIdle
  /\ PrefIdle
  /\ PMIdle
  /\ UIIdle
  /\ llm = NoCall
  /\ styleCall = NoStyleCall
  /\ stateCall = NoStateCall
  /\ \E history \in SeqsUpTo(OptMessages, MaxHistory) :
       opt = [messages |-> history, done |-> FALSE, result |-> <<>>]

Optimize ==
  /\ ~opt.done
  /\ opt' = [opt EXCEPT !.done = TRUE, !.result = optimizeConversationHistory(opt.messages)]
  /\ UNCHANGED <<llm, styleCall, stateCall, patVars, prefVars, pmVars, uiVars>>

NextOptimize == Optimize

SpecOptimize == InitOptimize /\ [][NextOptimize]_vars


-----------------------------------------------------------------------------
(* detectCommunicationStyle applied to a conversation: SpecStyle *)

MaxStyleHist == 5   \* messages in the conversation handed over

\* two sentences of 12 words that ask to explain and to implement; a short
\* greeting; an assistant reply
UBalanced == StyleMessage("user", {"explain", "implement"}, 24, 12)
UHey == StyleMessage("user", {"hey", "thanks"}, 2, 2)
ASureThing == StyleMessage("assistant", {"sure"}, 30, 10)
StyleMessages == {UBalanced, UHey, ASureThing}

\* the rating call fails, or returns {}, the same rating for every style, or
\* a rating for one style only
StyleReplies ==
  { CallFails,
    Reply(<<>>),
    Reply([styleName \in Range(StyleOrder) |-> 5]),
    Reply([technical |-> 9]) }

InitStyle ==
  /\ PatIdle
  /\ PrefIdle
  /\ PMIdle
  /\ UIIdle
  /\ llm = NoCall
  /\ opt = NotOptimized
  /\ stateCall = NoStateCall
  /\ \E messages \in SeqsUpTo(StyleMessages, MaxStyleHist) :
       styleCall = [messages |-> messages, done |-> FALSE, result |-> <<>>]

DetectStyle ==
  /\ ~styleCall.done
  /\ \E reply \in StyleReplies :
       styleCall' = [styleCall EXCEPT !.done = TRUE,
                                      !.result = detectCommunicationStyle(styleCall.messages, reply)]
  /\ UNCHANGED <<llm, opt, stateCall, patVars, prefVars, pmVars, uiVars>>

NextStyle == DetectStyle

SpecStyle == InitStyle /\ [][NextStyle]_vars


-----------------------------------------------------------------------------
(* analyzeConversationState applied to a conversation: SpecState *)

MaxStateHist == 6   \* messages in the conversation handed over

UThanks == Message("user", {"thanks", "goodbye"}, 15, FALSE)
UNext == Message("user", {"next", "cats"}, 9, FALSE)
UDeep == Message("user", {"elaborate"}, 9, FALSE)
StateMessages == {UCat, UThanks, UNext, UDeep, AOk}

InitState ==
  /\ PatIdle
  /\ PrefIdle
  /\ PMIdle
  /\ UIIdle
  /\ llm = NoCall
  /\ opt = NotOptimized
  /\ styleCall = NoStyleCall
  /\ \E messages \in SeqsUpTo(StateMessages, MaxStateHist) :
       stateCall = [messages |-> messages, done |-> FALSE, result |-> ""]

AnalyzeState ==
  /\ ~stateCall.done
  /\ stateCall' = [stateCall EXCEPT !.done = TRUE,
                                    !.result = analyzeConversationState(stateCall.messages)]
  /\ UNCHANGED <<llm, opt, styleCall, patVars, prefVars, pmVars, uiVars>>

NextState == AnalyzeState

SpecState == InitState /\ [][NextState]_vars

-----------------------------------------------------------------------------
(* Properties of processMessage, checked under SpecProcess *)

\* C1: processMessage never raises; whatever completion calls fail or
\* succeed during a pass, the pass returns a bundle whose assistant message
\* is there and has type 'assistant'.
C1_AlwaysAssistantMessage ==
  \A p \in Passes :
    pass[p].pc = "done" =>
      /\ ~pass[p].raised
      /\ pass[p].bundle.message.type = "assistant"

\* a pass in which every completion call failed and that returned its own bundle
C1_Witness ==
  \E p \in Passes :
    /\ pass[p].pc = "done"
    /\ pass[p].failedCalls =
         {"classification", "patterns", "insights", "style", "response", "follow_ups"}
    /\ pass[p].threw = "none"
    /\ pass[p].bundle.message.type = "assistant"

\* C2: a failed completion call is dealt with where the call is made and
\* never reaches the top-level catch of processMessage, the completion call
\* of the plain text-response path included.
C2_CompletionFailureNeverReachesCatch ==
  \A p \in Passes : pass[p].threw # "completion"

\* C4: when a step of a pass throws up to the top level, the returned bundle
\* is the fixed fallback (intent 'text', confidence 0.3, model 'fallback', no
\* action log, no memory insights, empty lists, state 'beginning') and holds
\* nothing computed before the failure.
C4_FixedFallbackOnThrow ==
  \A p \in Passes :
    (pass[p].pc = "done" /\ pass[p].threw # "none") =>
      LET b == pass[p].bundle
      IN  /\ b.message.type = "assistant"
          /\ b.message.intent = "text"
          /\ b.message.confidence = 30
          /\ b.message.modelUsed = "fallback"
          /\ ~b.actionLog.present
          /\ ~b.memoryInsights.present
          /\ b.patterns = <<>>
          /\ b.predictiveInsights = <<>>
          /\ b.workflowSuggestions = <<>>
          /\ b.nextBestActions = <<>>
          /\ b.conversationState = "beginning"

\* a pass that had found patterns and predictions, had saved its profile, and
\* then threw in the suggestion step
C4_Witness ==
  \E p \in Passes :
    /\ pass[p].pc = "done"
    /\ pass[p].threw = "type_error"
    /\ pass[p].updatedPatterns # <<>>
    /\ pass[p].hypotheticalNext # <<>>
    /\ pass[p].bundle.patterns = <<>>

\* C10: with storage present, a pass drops a persisted pattern of its session
\* only if the pattern is stale (not seen in 7 days), of confidence <= 0.8
\* and of occurrence < 2; a pattern that is recent, or of confidence > 0.8, or
\* of occurrence >= 2 is still persisted when the pass is over.
C10_PersistedUnlessStaleWeakRare ==
  \A p \in Passes :
    (hasStorage /\ pass[p].pc = "done") =>
      \A i \in DOMAIN pass[p].existingPatterns :
        LET q == pass[p].existingPatterns[i]
            persisted == loadPatterns(hasStorage, patternStore, pass[p].sessionId)
        IN  (q.lastSeen > now - 7 \/ q.confidence > 80 \/ q.occurrences >= 2)
              => \E j \in DOMAIN persisted : persisted[j].id = q.id

-----------------------------------------------------------------------------
(* Properties of overlapping passes, checked under SpecRace *)

\* C6 (as the code has it): with storage present, when two passes for the
\* same session overlap (both load patterns and profile before either
\* saves), each stored value is on its own the one of the last save made to
\* it: the stored patterns are those of the pass whose savePatterns ran last,
\* the stored profile is the one of the pass whose savePreferenceProfile ran
\* last, which need not be the same pass; neither pass raises.
C6_LastWriteWinsPerValue ==
  \A s \in Sessions :
    (/\ hasStorage
     /\ \A p \in Passes : pass[p].pc = "done" /\ pass[p].sessionId = s /\ pass[p].loadedClean)
    => /\ \A p \in Passes : ~pass[p].raised
       /\ writers.patterns[s] # "none" =>
            patternStore[s] =
              savePatterns(TRUE, EmptyPatternStore, s, pass[writers.patterns[s]].updatedPatterns)[s]
       /\ writers.profile[s] # "none" =>
            profileStore[s] =
              savePreferenceProfile(TRUE, EmptyProfileStore, s,
                                    ProfilePreferences(pass[writers.profile[s]]))[s]

\* C6 as stated: after both overlapping passes have finished, the stored
\* patterns and the stored profile are both those written by the one pass
\* that saved last.
C6_AsStated ==
  \A s \in Sessions :
    (/\ hasStorage
     /\ \A p \in Passes : pass[p].pc = "done" /\ pass[p].sessionId = s /\ pass[p].loadedClean
     /\ writers.last[s] # "none")
    => /\ patternStore[s] =
            savePatterns(TRUE, EmptyPatternStore, s, pass[writers.last[s]].updatedPatterns)[s]
       /\ profileStore[s] =
            savePreferenceProfile(TRUE, EmptyProfileStore, s,
                                  ProfilePreferences(pass[writers.last[s]]))[s]

\* two overlapping passes of one session, one of which saved the patterns
\* last and the other the profile last
C6_Witness ==
  \E s \in Sessions :
    /\ hasStorage
    /\ \A p \in Passes : pass[p].pc = "done" /\ pass[p].sessionId = s /\ pass[p].loadedClean
    /\ writers.patterns[s] # "none"
    /\ writers.profile[s] # "none"
    /\ writers.patterns[s] # writers.profile[s]
    /\ \A p \in Passes : pass[p].wrotePatterns /\ pass[p].wroteProfile

-----------------------------------------------------------------------------
(* Properties of the page, checked under SpecUI *)

\* submission k has been answered on the page: the displayed list holds the
\* user message of k directly followed by an assistant message for k, and no
\* other assistant message for k
RepliedOnce(k) ==
  /\ \E i \in 1..(Len(uiMessages) - 1) :
       /\ uiMessages[i].type = "user" /\ uiMessages[i].of = k
       /\ uiMessages[i + 1].type = "assistant" /\ uiMessages[i + 1].of = k
  /\ Cardinality({i \in DOMAIN uiMessages :
                    uiMessages[i].type = "assistant" /\ uiMessages[i].of = k}) = 1

\* C3: every accepted submission eventually ends with exactly one assistant
\* message appended after its user message and with the loading flag false,
\* whether the call resolves or rejects, given that the call returns.
C3_SubmissionEndsWithOneReply ==
  \A k \in 1..MaxSubmissions :
    (\E r \in requests : r.of = k) ~> (~isLoading /\ RepliedOnce(k))

\* C5: at most one processMessage call is outstanding on a page at any
\* time; from a submission to the arrival of its result or error no second
\* submission is accepted.
C5_AtMostOneOutstanding ==
  /\ Cardinality(requests) <= 1
  /\ isLoading <=> requests # {}

\* a call is outstanding while the input box holds a text that could be submitted
C5_Witness ==
  /\ Cardinality(requests) = 1
  /\ isLoading
  /\ Trim(uiInput) # ""
  /\ sent < MaxSubmissions

-----------------------------------------------------------------------------
(* Properties of the stored preference profile, checked under SpecProcess *)

\* the preferences the analysers of a pass detect in its history, before the merge
DetectedPreferences(st) ==
  IF SelectSeq(st.history, IsUser) = <<>> THEN <<>>
  ELSE analyzeResponseStylePreferences(st.history, now)
         \o analyzeContentTypePreferences(st.history, now)
         \o analyzeInteractionPatterns(st.history, now)

\* C11: with storage present, a persisted preference that a pass does not
\* detect again is persisted after the pass with its strength multiplied by
\* 0.95, and is absent from the persisted profile once that strength is below
\* 0.1; until then it remains persisted.
C11_UndetectedPreferenceDecays ==
  \A p \in Passes :
    (hasStorage /\ pass[p].pc = "done" /\ pass[p].wroteProfile) =>
      LET st == pass[p]
          detected == DetectedPreferences(st)
          persisted == loadPreferenceProfile(hasStorage, profileStore, st.sessionId).preferences
      IN  \A i \in DOMAIN st.existingProfile.preferences :
            LET q == st.existingProfile.preferences[i]
            IN  (~\E d \in DOMAIN detected : SamePreference(detected[d], q)) =>
                  /\ \A j \in DOMAIN persisted :
                       SamePreference(persisted[j], q) =>
                         /\ persisted[j].strength = Decayed(q).strength
                         /\ persisted[j].strength >= WeakStrength
                  /\ Decayed(q).strength >= WeakStrength =>
                       \E j \in DOMAIN persisted : SamePreference(persisted[j], q)

\* C12: as deployed, with processMessage running in the server router (no
\* window, hence no storage capability), the patterns and preferences a pass
\* has learned for a session are loaded by a later pass or by the
\* getConversationPatterns and getUserPreferences queries for that session.
C12_LearnedIsRemembered ==
  \A p \in Passes :
    (~hasStorage /\ pass[p].pc = "done" /\ pass[p].threw = "none") =>
      LET st == pass[p]
      IN  /\ loadPatterns(hasStorage, patternStore, st.sessionId) = st.updatedPatterns
          /\ SavesProfile(st) =>
               loadPreferenceProfile(hasStorage, profileStore, st.sessionId)
                 = Profile(ProfilePreferences(st))

C14_NoStorageNoMemory ==
  ~hasStorage =>
    /\ patternStore = EmptyPatternStore
    /\ profileStore = EmptyProfileStore
    /\ \A s \in Sessions :
         /\ loadPatterns(hasStorage, patternStore, s) = <<>>
         /\ loadPreferenceProfile(hasStorage, profileStore, s) = NoProfile
    /\ \A p \in Passes : ~pass[p].raised

\* without storage, a pass has gone through both saves with something to save
C14_Witness ==
  \E p \in Passes :
    /\ ~hasStorage
    /\ pass[p].pc = "done"
    /\ pass[p].threw = "none"
    /\ pass[p].updatedPatterns # <<>>
    /\ SavesProfile(pass[p])
    /\ ProfilePreferences(pass[p]) # <<>>

\* C15: for an input that contains an image keyword the action type of the
\* returned bundle is 'image' or 'image_prompt', whatever intent the
\* classification call returns, whatever the patterns and the other calls.
C15_ImageKeywordGivesImageAction ==
  \A p \in Passes :
    (/\ pass[p].pc = "done"
     /\ pass[p].threw = "none"
     /\ IncludesAny(pass[p].input.words, ImageKeywords)) =>
      pass[p].bundle.actionLog.action \in {"image", "image_prompt"}

-----------------------------------------------------------------------------
(* Properties of the completion client, checked under SpecModel *)

\* C16: the model a completion call uses is the one the rule table chooses:
\* the lite variant when the operation is intent classification with
\* complexity < 0.5 or when the estimated tokens are < 200 with complexity
\* < 0.7, the primary variant in every other case.
C16_ModelFollowsRuleTable ==
  llm.called =>
    llm.model =
      (IF \/ llm.operation = "intent_classification" /\ llm.complexityScore < 500
          \/ llm.estimatedTokens < 200 /\ llm.complexityScore < 700
       THEN FlashLite ELSE Flash)

-----------------------------------------------------------------------------
(* Properties of the workflow suggestions, checked under SpecProcess *)

-----------------------------------------------------------------------------
(* Properties of the conversation store, checked under SpecSessions *)

\* the session of a store with a given id (the id is in the store)
SessionOf(stored, sessionId) == stored.sessions[SessionIndex(stored.sessions, sessionId)]
SessionIdsOf(stored) == {stored.sessions[i].id : i \in DOMAIN stored.sessions}

\* C18: deleteSession(id) takes the session id, with its messages and gallery
\* images, out of the store and leaves every other session's title, messages
\* and gallery images as they were; when id is not the active session, the
\* active session id and the displayed messages stay as they were too.
C18_DeleteRemovesOnlyThatSession ==
  calls.op = "deleteSession" =>
    /\ SessionIdsOf(store) = SessionIdsOf(calls.prevStore) \ {calls.sessionId}
    /\ Len(store.sessions) = Cardinality(SessionIdsOf(store))
    /\ \A sessionId \in SessionIdsOf(store) :
         /\ SessionOf(store, sessionId).title = SessionOf(calls.prevStore, sessionId).title
         /\ SessionOf(store, sessionId).messages = SessionOf(calls.prevStore, sessionId).messages
         /\ SessionOf(store, sessionId).galleryImages
              = SessionOf(calls.prevStore, sessionId).galleryImages
    /\ calls.prevStore.activeSessionId # calls.sessionId =>
         /\ store.activeSessionId = calls.prevStore.activeSessionId
         /\ uiMessages = calls.prevMessages

\* a session that is not the active one was deleted from beside a renamed
\* session holding a gallery image
C18_Witness ==
  /\ calls.op = "deleteSession"
  /\ calls.prevStore.activeSessionId # calls.sessionId
  /\ calls.sessionId \in SessionIdsOf(calls.prevStore)
  /\ \E sessionId \in SessionIdsOf(store) :
       /\ SessionOf(store, sessionId).title \in NewTitles
       /\ SessionOf(store, sessionId).galleryImages # <<>>
  /\ uiMessages # <<>>

IsPrefix(earlier, later) ==
  /\ Len(earlier) <= Len(later)
  /\ \A k \in DOMAIN earlier : later[k] = earlier[k]

\* C19: a session's message list only grows at its end: whatever operation
\* was called, the message list every session still in the store had before
\* the call is a prefix of the list it has now.
C19_MessagesOnlyAppended ==
  \A sessionId \in SessionIdsOf(store) \cap SessionIdsOf(calls.prevStore) :
    IsPrefix(SessionOf(calls.prevStore, sessionId).messages,
             SessionOf(store, sessionId).messages)

\* a message was added to a session that held messages already, other than
\* the one written first
C19_Witness ==
  /\ calls.op = "addMessage"
  /\ calls.sessionId \in SessionIdsOf(calls.prevStore)
  /\ calls.sessionId # 1
  /\ Len(SessionOf(store, calls.sessionId).messages)
       = Len(SessionOf(calls.prevStore, calls.sessionId).messages) + 1
  /\ SessionOf(store, calls.sessionId).messages[1].type
       # SessionOf(store, calls.sessionId).messages[2].type

-----------------------------------------------------------------------------
(* Properties of the response dispatch, checked under SpecProcess *)

\* C20: a pass takes one response path, chosen in this order: classified
\* intent 'image' gives image-prompt generation and action type
\* 'image_prompt'; otherwise intent 'contextual_reasoning' or a non-empty
\* pattern list gives the Contextual Reasoner; otherwise intent 'clarify'
\* gives the clarification request; otherwise the completion call of the
\* text path.
C20_OneResponsePathByPriority ==
  \A p \in Passes :
    pass[p].pc \in {"following", "done"} =>
      LET st == pass[p]
          classified == st.intent.intent
          image == classified = "image"
          reasoned == ~image /\ (classified = "contextual_reasoning" \/ st.updatedPatterns # <<>>)
          clarified == ~image /\ ~reasoned /\ classified = "clarify"
      IN  /\ st.path \in {"image_prompt_generation", "contextual_reasoner",
                          "clarification", "text_response"}
          /\ image <=> st.path = "image_prompt_generation"
          /\ reasoned <=> st.path = "contextual_reasoner"
          /\ clarified <=> st.path = "clarification"
          /\ (~image /\ ~reasoned /\ ~clarified) <=> st.path = "text_response"
          /\ (image /\ st.pc = "following") => st.actionType = "image_prompt"
          /\ (image /\ st.pc = "done" /\ st.threw = "none") =>
               /\ st.bundle.actionLog.action = "image_prompt"
               /\ st.bundle.message.intent = "image_prompt"

\* a pass classified 'clarify' with patterns at hand has gone to the reasoner
C20_Witness ==
  \E p \in Passes :
    /\ pass[p].pc = "done"
    /\ pass[p].threw = "none"
    /\ pass[p].intent.intent = "clarify"
    /\ pass[p].updatedPatterns # <<>>
    /\ pass[p].path = "contextual_reasoner"

-----------------------------------------------------------------------------
(* Properties of the token optimizer, checked under SpecOptimize *)

\* the positions of the last up-to-two important messages before the last five
KeptEarlier(msgs) ==
  LET important == {i \in 1..(Len(msgs) - MAX_CONTEXT_MESSAGES) : isHighImportanceMessage(msgs[i])}
  IN  {i \in important : Cardinality({j \in important : j > i}) < 2}

\* the elements of msgs at the positions of a set, in their order
RECURSIVE AtPositions(_, _)
AtPositions(msgs, positions) ==
  IF positions = {} THEN <<>>
  ELSE LET last == CHOOSE i \in positions : \A j \in positions : j <= i
       IN  Append(AtPositions(msgs, positions \ {last}), msgs[last])

\* C21: at most 5 messages come back unchanged with tokensSaved = 0; a longer
\* history comes back as its last 5 messages preceded by the last up-to-2
\* high-importance messages among the earlier ones, in their original order:
\* a subsequence of the input of 5 to 7 messages, and tokensSaved >= 0.
C21_RecentPlusImportant ==
  opt.done =>
    LET msgs == opt.messages
        n == Len(msgs)
        out == opt.result.optimizedMessages
    IN  /\ n <= 5 => (out = msgs /\ opt.result.tokensSaved = 0)
        /\ n > 5 =>
             /\ out = AtPositions(msgs, KeptEarlier(msgs) \cup ((n - 4)..n))
             /\ Len(out) \in 5..7
             /\ opt.result.tokensSaved >= 0

\* a history with three important messages before its last five was optimized
C21_Witness ==
  /\ opt.done
  /\ Len(opt.messages) = 8
  /\ \A i \in 1..3 : isHighImportanceMessage(opt.messages[i])
  /\ opt.messages[1] # opt.messages[2]
  /\ Len(opt.result.optimizedMessages) = 7
  /\ opt.result.tokensSaved > 0

-----------------------------------------------------------------------------
(* Properties of analyzeConversation, checked under SpecPatterns *)

\* C22: every pattern analyzeConversation returns has a confidence between
\* 0.6 and 1, whatever the completion returned and whichever parsing layer
\* produced the pattern.
C22_ConfidenceWithinRange ==
  patOp.op = "analyze" =>
    \A i \in DOMAIN pats :
      /\ pats[i].confidence >= PATTERN_CONFIDENCE_THRESHOLD
      /\ pats[i].confidence <= 100

\* the canned image-request pattern of the keyword heuristic, as found at time t
CannedImagePattern(messages, t) ==
  LET imageRequests == SelectSeq(messages, LAMBDA m :
                         m.type = "user" /\ (m.content \cap {"image", "generate", "create"}) # {})
  IN  [id |-> <<"image_preference">>, type |-> <<"preference">>,
       pattern |-> <<"user", "frequently", "requests", "image", "generation">>,
       confidence |-> 70, occurrences |-> Len(imageRequests), lastSeen |-> t,
       examples |-> [i \in 1..Min(3, Len(imageRequests)) |->
                       Example("message", imageRequests[i].content, {})]]

ImageRequestCount(messages) ==
  Len(SelectSeq(messages, LAMBDA m :
        m.type = "user" /\ (m.content \cap {"image", "generate", "create"}) # {}))

\* what the keyword heuristic is said to return
HeuristicResult(messages, t) ==
  IF ImageRequestCount(messages) >= 2 THEN <<CannedImagePattern(messages, t)>> ELSE <<>>

\* C23 (as stated): given fewer than 3 messages analyzeConversation falls back
\* to the keyword heuristic exactly as on a completion failure: the canned
\* image-request pattern when at least 2 user messages hold an image keyword,
\* the empty list otherwise.
C23_AsStated ==
  (patOp.op = "analyze" /\ (patOp.n < 3 \/ ~patOp.ok)) =>
    pats = HeuristicResult(patOp.messages, patOp.at)

\* C23 (as the code has it): given fewer than 3 messages analyzeConversation
\* returns the empty list; on a completion failure with 3 messages or more it
\* returns what the keyword heuristic returns.
C23_ShortIsEmptyFailureIsHeuristic ==
  patOp.op = "analyze" =>
    /\ patOp.n < 3 => pats = <<>>
    /\ (patOp.n >= 3 /\ ~patOp.ok) => pats = HeuristicResult(patOp.messages, patOp.at)

\* two image requests, and no more, were analyzed
C23_Witness ==
  /\ patOp.op = "analyze"
  /\ patOp.n = 2
  /\ ImageRequestCount(patOp.messages) = 2
  /\ pats = <<>>

-----------------------------------------------------------------------------
(* Properties of the style adapter, checked under SpecStyle *)

\* C24: when several styles share the highest blended score, the style
\* returned is the one that comes first in the order direct, casual,
\* detailed, creative, technical, formal.
C24_FirstOfTiedStylesWins ==
  (styleCall.done /\ styleCall.result.analyzed) =>
    LET scores == styleCall.result.combinedScores
        top == {i \in DOMAIN StyleOrder :
                  \A j \in DOMAIN StyleOrder : scores[StyleOrder[j]] <= scores[StyleOrder[i]]}
    IN  styleCall.result.name = StyleOrder[CHOOSE i \in top : \A j \in top : i <= j]

-----------------------------------------------------------------------------
(* Properties of the conversation state, checked under SpecState *)

\* the words of the last three user messages
LastThreeUserWords(messages) ==
  LET userMessages == LastN(SelectSeq(messages, LAMBDA m : m.type = "user"), 3)
  IN  UNION {userMessages[i].content : i \in DOMAIN userMessages}

\* C25 (as stated): for a conversation of at least 2 messages the state is 'conclusion'
\* whenever the last 3 user messages hold a conclusion keyword, otherwise
\* 'transition' whenever they hold a transition keyword, otherwise 'deep_dive'
\* whenever they hold an elaboration keyword, and only otherwise 'beginning'
\* (at most 2 user messages) or 'developing'.
C25_AsStated ==
  (stateCall.done /\ Len(stateCall.messages) >= 2) =>
    LET words == LastThreeUserWords(stateCall.messages)
        userCount == Len(SelectSeq(stateCall.messages, LAMBDA m : m.type = "user"))
    IN  stateCall.result =
          (IF words \cap {"thanks", "that's all", "goodbye", "that helps"} # {} THEN "conclusion"
           ELSE IF words \cap {"now", "next", "switch", "move on"} # {} THEN "transition"
           ELSE IF words \cap {"detail", "explain more", "elaborate", "deep"} # {} THEN "deep_dive"
           ELSE IF userCount <= 2 THEN "beginning"
           ELSE "developing")

\* C25 (as the code has it): for a conversation of at least 2 messages the
\* state is 'beginning' with at most 2 user messages and 'developing' with 3
\* to 5; with more than 5 user messages it is 'conclusion' whenever the last 3
\* user messages hold a conclusion keyword, otherwise 'transition' whenever
\* they hold a transition keyword, otherwise 'deep_dive' whenever they hold an
\* elaboration keyword, and otherwise 'developing'.
C25_CountsBeforeKeywords ==
  (stateCall.done /\ Len(stateCall.messages) >= 2) =>
    LET words == LastThreeUserWords(stateCall.messages)
        userCount == Len(SelectSeq(stateCall.messages, LAMBDA m : m.type = "user"))
    IN  stateCall.result =
          (IF userCount <= 2 THEN "beginning"
           ELSE IF userCount <= 5 THEN "developing"
           ELSE IF words \cap {"thanks", "that's all", "goodbye", "that helps"} # {} THEN "conclusion"
           ELSE IF words \cap {"now", "next", "switch", "move on"} # {} THEN "transition"
           ELSE IF words \cap {"detail", "explain more", "elaborate", "deep"} # {} THEN "deep_dive"
           ELSE "developing")

\* six user messages, a farewell and a topic change among the last three
C25_Witness ==
  /\ stateCall.done
  /\ Len(SelectSeq(stateCall.messages, LAMBDA m : m.type = "user")) = 6
  /\ "goodbye" \in LastThreeUserWords(stateCall.messages)
  /\ "next" \in LastThreeUserWords(stateCall.messages)
  /\ stateCall.result = "conclusion"

-----------------------------------------------------------------------------
(* Properties of the page's sessions, checked under SpecUI *)

\* C26: the assistant message produced for a submission is appended to the
\* session that holds the user message of that submission, whatever session
\* operations were made while the request was pending.
C26_ReplyJoinsItsUserMessage ==
  \A i \in DOMAIN store.sessions :
    LET msgs == store.sessions[i].messages
    IN  \A k \in DOMAIN msgs :
          msgs[k].type = "assistant" =>
            \E j \in DOMAIN msgs : msgs[j].type = "user" /\ msgs[j].of = msgs[k].of

-----------------------------------------------------------------------------
(* Properties of the displayed list, checked under SpecSessions *)

\* the message list of the active session; empty when no session is active
\* or the active id has no entry in the store
ActiveMessages ==
  LET i == SessionIndex(store.sessions, store.activeSessionId)
  IN  IF store.activeSessionId = NoSession \/ i = 0 THEN <<>>
      ELSE store.sessions[i].messages

\* C27: after any sequence of addMessage, createNewSession, switchToSession,
\* deleteSession, renameSession and clearAllHistory the displayed message list
\* is the message list of the active session, and it is empty when no session
\* is active or the active id has no entry in the store.
C27_DisplayedIsActive == uiMessages = ActiveMessages

\* with two sessions stored, a switch to a session that holds messages was
\* made from a view that showed a different list
C27_Witness ==
  /\ calls.op = "switchToSession"
  /\ calls.prevMessages # uiMessages
  /\ uiMessages # <<>>
  /\ Len(store.sessions) >= 2

-----------------------------------------------------------------------------
(* Properties of the stored pattern collection under passes of several
   sessions, checked under SpecRace *)

\* the pass p saves its patterns in this step
SavesPatternsNow(p) == ~pass[p].wrotePatterns /\ pass'[p].wrotePatterns

\* what loadPatterns returns for a session whose last save held these patterns
LoadedAfterSave(sessionId, patterns) ==
  loadPatterns(TRUE, savePatterns(TRUE, EmptyPatternStore, sessionId, patterns), sessionId)

\* the save of a pass is still what its session loads, unless the other pass
\* saved for the same session after it
SaveKept(p) ==
  (pass[p].wrotePatterns /\ writers.patterns[pass[p].sessionId] = p)
    => loadPatterns(hasStorage, patternStore, pass[p].sessionId)
         = LoadedAfterSave(pass[p].sessionId, pass[p].updatedPatterns)

\* C28: with storage present, savePatterns(S, P) changes only session S's
\* entry of the stored pattern collection: loadPatterns(T) returns the same
\* for every other session T before and after the save, also when the passes
\* of S and T overlap, and then neither session's save is lost.
C28_SaveTouchesOnlyItsSession ==
  /\ [][\A p \in Passes :
          (hasStorage /\ SavesPatternsNow(p)) =>
            /\ \A T \in Sessions \ {pass[p].sessionId} :
                 loadPatterns(hasStorage, patternStore', T)
                   = loadPatterns(hasStorage, patternStore, T)
            /\ loadPatterns(hasStorage, patternStore', pass[p].sessionId)
                 = LoadedAfterSave(pass[p].sessionId, pass[p].updatedPatterns)]_vars
  /\ [](hasStorage =>
          \A p, q \in Passes :
            (p # q /\ pass[p].sessionId # pass[q].sessionId
             /\ pass[p].wrotePatterns /\ pass[q].wrotePatterns)
              => SaveKept(p) /\ SaveKept(q))

\* two passes of different sessions overlapped (both loaded before either
\* saved), both saved patterns, and both sessions now hold stored patterns
C28_Witness ==
  /\ hasStorage
  /\ pass["A"].sessionId # pass["B"].sessionId
  /\ \A p \in Passes : pass[p].wrotePatterns /\ pass[p].loadedClean
  /\ \A s \in Sessions : patternStore[s] # <<>>

-----------------------------------------------------------------------------
(* Properties of the persisted preference profile, checked under SpecProcess *)

\* the records of a list are pairwise different in (category, preference)
OneRecordPerLabel(preferences) ==
  \A i, j \in DOMAIN preferences :
    (preferences[i].category = preferences[j].category
     /\ preferences[i].preference = preferences[j].preference) => i = j

\* C29: with storage present, after any number of passes for a session the
\* persisted preference profile holds at most one record for each pair of
\* category and preference label.
C29_OneRecordPerLabel ==
  hasStorage =>
    \A s \in Sessions :
      profileStore[s].present => OneRecordPerLabel(profileStore[s].preferences)

-----------------------------------------------------------------------------
(* Properties of the request a submission sends, checked under SpecUI *)

\* C30: the session id sent with a processMessage request is the id of the
\* session in which the user message of that submission was stored, for
\* every submission, the first one made with no active session included.
C30_RequestNamesStoringSession ==
  \A r \in requests :
    \A i \in DOMAIN store.sessions :
      (\E k \in DOMAIN store.sessions[i].messages :
         /\ store.sessions[i].messages[k].type = "user"
         /\ store.sessions[i].messages[k].of = r.of)
        => r.sessionId = store.sessions[i].id

====
